---------------------------- MODULE Spec2Model ----------------------------
(***************************************************************************)
(* Model of the topic-memory store (src/core/topic-memory-manager.ts) and  *)
(* of the id-addressed memory store with its cache (memory-manager.ts).    *)
(*                                                                         *)
(* Strings are sequences of one-character strings, so that substring       *)
(* search, lower-casing and file-name handling are computed rather than    *)
(* assumed.  A JSON document on disk is the sequence of its keys with      *)
(* their values, in key order; a topic record on disk is a function from   *)
(* the fields it holds to their values (JSON.stringify drops a field whose *)
(* value is undefined).  An object in memory maps every field to <<>>      *)
(* (undefined) or to <<v>>.                                                *)
(***************************************************************************)
EXTENDS Integers, Sequences, FiniteSets, TLC

VARIABLES
    files,   \* the storage root: file name -> parsed content of the file
    now,     \* the clock read by Date.now()
    steps,   \* number of operations run so far
    last,    \* the last operation: its name, arguments and outcome
    disk,    \* the memory directory: memory id -> parsed content of <id>.json
    cache,   \* the LRU cache: its entries, least recently used first
    snap,    \* the environment: variables, arguments, current directory, files
    processes,       \* what the commands run on the editor's processes report
    projectContext,  \* the identity of the manager, set by its constructor
    memoryDir,       \* the memory directory of the manager
    inflight,        \* the operations suspended at a read or a write of a file
    torn             \* the files that hold no whole document: file -> length

\* the environment and the identity of the manager
identity == <<snap, processes, projectContext, memoryDir>>

\* the operations in flight and what their writes have left unfinished
pending == <<inflight, torn>>

vars == <<files, now, steps, last, disk, cache, snap, processes, projectContext,
          memoryDir, inflight, torn>>

---------------------------------------------------------------------------
(* Bounds of the model *)

MaxSteps == 2
MaxClock == 2

\* the capacity of the cache (1000) and the lifetime of an entry (24 hours),
\* scaled down to the model's clock
CacheMax == 1
CacheTtl == 1

\* the length of a run of the memory store and the reach of its clock
MemMaxSteps == 3
MemMaxClock == 3

\* parts of the environment that differ from the empty one, runs of detection,
\* operations on a manager whose environment changes
MaxArrange == 2
MaxDetects == 1
IdMaxSteps == 2

\* operations of the topic store started in a run with operations in flight
MaxConcOps == 2

\* operations of the memory store started in a run with operations in flight
MaxFlightOps == 3

---------------------------------------------------------------------------
(* Strings *)

LowerOf ==
    [A |-> "a", B |-> "b", C |-> "c", D |-> "d", E |-> "e", F |-> "f",
     G |-> "g", H |-> "h", I |-> "i", J |-> "j", K |-> "k", L |-> "l",
     M |-> "m", N |-> "n", O |-> "o", P |-> "p", Q |-> "q", R |-> "r",
     S |-> "s", T |-> "t", U |-> "u", V |-> "v", W |-> "w", X |-> "x",
     Y |-> "y", Z |-> "z"]

UpperOf ==
    [a |-> "A", b |-> "B", c |-> "C", d |-> "D", e |-> "E", f |-> "F",
     g |-> "G", h |-> "H", i |-> "I", j |-> "J", k |-> "K", l |-> "L",
     m |-> "M", n |-> "N", o |-> "O", p |-> "P", q |-> "Q", r |-> "R",
     s |-> "S", t |-> "T", u |-> "U", v |-> "V", w |-> "W", x |-> "X",
     y |-> "Y", z |-> "Z"]

\* String.prototype.toLowerCase
toLowerCase(s) ==
    [i \in 1..Len(s) |-> IF s[i] \in DOMAIN LowerOf THEN LowerOf[s[i]] ELSE s[i]]

\* String.prototype.toUpperCase
toUpperCase(s) ==
    [i \in 1..Len(s) |-> IF s[i] \in DOMAIN UpperOf THEN UpperOf[s[i]] ELSE s[i]]

\* String.prototype.includes
includes(s, q) ==
    \E i \in 0..(Len(s) - Len(q)) : SubSeq(s, i + 1, i + Len(q)) = q

\* String.prototype.endsWith
endsWith(s, q) ==
    /\ Len(q) <= Len(s)
    /\ SubSeq(s, Len(s) - Len(q) + 1, Len(s)) = q

\* String.prototype.replace(q, ""): removes the first occurrence of q
removeFirst(s, q) ==
    IF ~includes(s, q) THEN s
    ELSE LET i == CHOOSE k \in 0..(Len(s) - Len(q)) :
                     /\ SubSeq(s, k + 1, k + Len(q)) = q
                     /\ \A j \in 0..(k - 1) : SubSeq(s, j + 1, j + Len(q)) # q
         IN  SubSeq(s, 1, i) \o SubSeq(s, i + Len(q) + 1, Len(s))

\* topic.charAt(0).toUpperCase() + topic.slice(1)
capitalize(s) ==
    IF Len(s) = 0 THEN s ELSE toUpperCase(<<s[1]>>) \o SubSeq(s, 2, Len(s))

JsonExt == <<".", "j", "s", "o", "n">>

---------------------------------------------------------------------------
(* Names and inputs *)

Summary       == <<"s", "u", "m", "m", "a", "r", "y">>
Libraries     == <<"l", "i", "b", "r", "a", "r", "i", "e", "s">>
ChangeHistory == <<"c", "h", "a", "n", "g", "e", "-", "h", "i", "s", "t", "o", "r", "y">>
Architecture  == <<"a", "r", "c", "h", "i", "t", "e", "c", "t", "u", "r", "e">>
Todo          == <<"t", "o", "d", "o">>
Bugs          == <<"b", "u", "g", "s">>
Features      == <<"f", "e", "a", "t", "u", "r", "e", "s">>
Documentation == <<"d", "o", "c", "u", "m", "e", "n", "t", "a", "t", "i", "o", "n">>
Testing       == <<"t", "e", "s", "t", "i", "n", "g">>
Deployment    == <<"d", "e", "p", "l", "o", "y", "m", "e", "n", "t">>

FIXED_TOPICS ==
    <<Summary, Libraries, ChangeHistory, Architecture, Todo, Bugs, Features,
      Documentation, Testing, Deployment>>

FixedTag == <<"f", "i", "x", "e", "d", "-", "t", "o", "p", "i", "c">>

PlaceholderTail ==
    <<"\n", "\n", "A", "g", "u", "a", "r", "d", "a", "n", "d", "o", " ",
      "c", "o", "n", "t", "e", "u", "d", "o", ".", ".", ".">>

\* Names every object inherits from Object.prototype: "constructor" is an
\* inherited data property, "__proto__" an inherited accessor.
Constructor == <<"c", "o", "n", "s", "t", "r", "u", "c", "t", "o", "r">>
ProtoKey    == <<"_", "_", "p", "r", "o", "t", "o", "_", "_">>
InheritedNames == {Constructor, ProtoKey}

Shop == <<"s", "h", "o", "p">>
Blog == <<"b", "l", "o", "g">>
Projects == {Shop, Blog}

TopicNames == {Bugs, Constructor, ProtoKey}

Fields == {"content", "tags", "importance", "timestamp", "lastModified"}


---------------------------------------------------------------------------
(* JSON documents and objects in memory *)

\* A property read that yields undefined gives <<>>, any other value v <<v>>.
Undefined == <<>>

\* JSON.parse of one topic record: the fields the file holds.
parseRecord(j) ==
    [f \in Fields |-> IF f \in DOMAIN j THEN <<j[f]>> ELSE Undefined]

\* JSON.stringify of one topic record: a field whose value is undefined is
\* left out.
stringifyRecord(m) ==
    [f \in {g \in Fields : m[g] # Undefined} |-> m[f][1]]

\* JSON.parse(data): the own keys of the document, in key order.
JSONParse(doc) ==
    [i \in 1..Len(doc) |->
        [name |-> doc[i].name, memory |-> parseRecord(doc[i].memory)]]

\* JSON.stringify(topics, null, 2): own enumerable keys only.
JSONStringify(topics) ==
    [i \in 1..Len(topics) |->
        [name |-> topics[i].name, memory |-> stringifyRecord(topics[i].memory)]]

hasOwn(topics, name) == \E i \in 1..Len(topics) : topics[i].name = name

indexOf(topics, name) == CHOOSE i \in 1..Len(topics) : topics[i].name = name

\* topics[name]: an own key gives its record, a name of Object.prototype
\* gives the inherited member (an object without any topic field), any
\* other name gives undefined.
getProp(topics, name) ==
    IF hasOwn(topics, name)
    THEN [kind |-> "own", memory |-> topics[indexOf(topics, name)].memory]
    ELSE IF name \in InheritedNames
         THEN [kind |-> "inherited"]
         ELSE [kind |-> "undefined"]

\* the truth value of a property read in a condition
truthy(v) == v.kind # "undefined"

\* v.f and v?.f
propOf(v, f) == IF v.kind = "own" THEN v.memory[f] ELSE Undefined

\* topics[name] = m: "__proto__" runs the inherited setter, which replaces
\* the prototype of topics and adds no own key; any other name replaces the
\* own key in place or appends it.
setProp(topics, name, m) ==
    IF name = ProtoKey THEN topics
    ELSE IF hasOwn(topics, name)
         THEN [topics EXCEPT ![indexOf(topics, name)] = [name |-> name, memory |-> m]]
         ELSE Append(topics, [name |-> name, memory |-> m])

\* delete topics[name]: removes an own key, does nothing otherwise
deleteProp(topics, name) ==
    IF hasOwn(topics, name)
    THEN LET i == indexOf(topics, name)
         IN  SubSeq(topics, 1, i - 1) \o SubSeq(topics, i + 1, Len(topics))
    ELSE topics

---------------------------------------------------------------------------
(* The storage root *)

\* getProjectPath: the file <root>/<projectName>.json
getProjectPath(projectName) == projectName \o JsonExt

existsSync(fs, path) == path \in DOMAIN fs

\* loadProject: the parsed document, {} when the file does not exist
loadProject(fs, projectName) ==
    IF existsSync(fs, getProjectPath(projectName))
    THEN JSONParse(fs[getProjectPath(projectName)])
    ELSE <<>>

\* saveProject: the whole document replaces the file, which is created when
\* it does not exist
saveProject(fs, projectName, topics) ==
    [f \in DOMAIN fs \cup {getProjectPath(projectName)} |->
        IF f = getProjectPath(projectName) THEN JSONStringify(topics) ELSE fs[f]]

\* fs.unlink
unlink(fs, path) == [f \in DOMAIN fs \ {path} |-> fs[f]]

Max(a, b) == IF a >= b THEN a ELSE b
Min(a, b) == IF a <= b THEN a ELSE b

\* Math.max(1, Math.min(10, importance))
clamp(importance) == Max(1, Min(10, importance))

---------------------------------------------------------------------------
(* Operations of the topic store; each gives the storage root it leaves *)

\* topics[topic]?.timestamp || now : undefined and 0 are falsy
timestampOrNow(existing, clock) ==
    IF propOf(existing, "timestamp") # Undefined /\ propOf(existing, "timestamp")[1] # 0
    THEN propOf(existing, "timestamp")
    ELSE <<clock>>

storeTopicMemory(fs, clock, projectName, topic, content, tags, importance) ==
    LET topics == loadProject(fs, projectName)
        m == [content      |-> <<content>>,
              tags         |-> <<tags>>,
              importance   |-> <<clamp(importance)>>,
              timestamp    |-> timestampOrNow(getProp(topics, topic), clock),
              lastModified |-> <<clock>>]
    IN  saveProject(fs, projectName, setProp(topics, topic, m))

\* an optional argument: absent from the patch when it is undefined
argOf(patch, f) == IF f \in DOMAIN patch THEN <<patch[f]>> ELSE Undefined

\* updateTopicMemory with the creation time refreshed like lastModified
updateTopicMemory_RefreshTimestamp(fs, clock, projectName, topic, patch) ==
    LET topics   == loadProject(fs, projectName)
        existing == getProp(topics, topic)
        m == [content      |-> IF argOf(patch, "content") # Undefined
                               THEN argOf(patch, "content")
                               ELSE propOf(existing, "content"),
              tags         |-> IF argOf(patch, "tags") # Undefined
                               THEN argOf(patch, "tags")
                               ELSE propOf(existing, "tags"),
              importance   |-> IF argOf(patch, "importance") # Undefined
                               THEN <<clamp(patch["importance"])>>
                               ELSE propOf(existing, "importance"),
              timestamp    |-> <<clock>>,
              lastModified |-> <<clock>>]
    IN  IF ~truthy(existing)
        THEN [threw |-> TRUE, files |-> fs]
        ELSE [threw |-> FALSE,
              files |-> saveProject(fs, projectName, setProp(topics, topic, m))]

updateTopicMemory(fs, clock, projectName, topic, patch) ==
    LET topics   == loadProject(fs, projectName)
        existing == getProp(topics, topic)
        m == [content      |-> IF argOf(patch, "content") # Undefined
                               THEN argOf(patch, "content")
                               ELSE propOf(existing, "content"),
              tags         |-> IF argOf(patch, "tags") # Undefined
                               THEN argOf(patch, "tags")
                               ELSE propOf(existing, "tags"),
              importance   |-> IF argOf(patch, "importance") # Undefined
                               THEN <<clamp(patch["importance"])>>
                               ELSE propOf(existing, "importance"),
              timestamp    |-> propOf(existing, "timestamp"),
              lastModified |-> <<clock>>]
    IN  IF ~truthy(existing)
        THEN [threw |-> TRUE, files |-> fs]
        ELSE [threw |-> FALSE,
              files |-> saveProject(fs, projectName, setProp(topics, topic, m))]

deleteTopicMemory(fs, projectName, topic) ==
    LET topics == loadProject(fs, projectName)
    IN  IF truthy(getProp(topics, topic))
        THEN saveProject(fs, projectName, deleteProp(topics, topic))
        ELSE fs

resetProject(fs, projectName) ==
    IF existsSync(fs, getProjectPath(projectName))
    THEN unlink(fs, getProjectPath(projectName))
    ELSE fs

\* the placeholder record of a fixed topic
placeholder(topic, clock) ==
    [content      |-> <<(<<"#", " ">> \o capitalize(topic)) \o PlaceholderTail>>,
     tags         |-> << <<FixedTag, topic>> >>,
     importance   |-> <<5>>,
     timestamp    |-> <<clock>>,
     lastModified |-> <<clock>>]

\* the loop over FIXED_TOPICS, from the k-th name on
RECURSIVE initializeFrom(_, _, _)
initializeFrom(topics, k, clock) ==
    IF k > Len(FIXED_TOPICS) THEN topics
    ELSE IF ~truthy(getProp(topics, FIXED_TOPICS[k]))
         THEN initializeFrom(
                  setProp(topics, FIXED_TOPICS[k], placeholder(FIXED_TOPICS[k], clock)),
                  k + 1, clock)
         ELSE initializeFrom(topics, k + 1, clock)

\* initializeFixedTopics without the load of the existing document
initializeFixedTopics_FromEmpty(fs, clock, projectName) ==
    saveProject(fs, projectName, initializeFrom(<<>>, 1, clock))

initializeFixedTopics(fs, clock, projectName) ==
    saveProject(fs, projectName, initializeFrom(loadProject(fs, projectName), 1, clock))


---------------------------------------------------------------------------
(* The tools of the server *)

\* a number argument || d: undefined and 0 give d
numberOr(v, d) == IF v = Undefined \/ v[1] = 0 THEN d ELSE v[1]

\* an array argument || d: undefined gives d
arrayOr(v, d) == IF v = Undefined THEN d ELSE v[1]

\* the CallTool handler, case 'store-topic-memory'
callStoreTopicMemory(fs, clock, args) ==
    storeTopicMemory(fs, clock, args.projectName, args.topic, args.content,
                     arrayOr(args.tags, <<>>), numberOr(args.importance, 5))

---------------------------------------------------------------------------
(* The topic store step by step: every await of a read or a write of the   *)
(* file is a point at which another operation runs.  fs.writeFile opens    *)
(* the file with O_TRUNC and then writes the text from the start of the    *)
(* file, so between the two the file is empty, and a text written into a   *)
(* file that holds a longer one leaves the tail of the longer one behind.  *)

\* the length of JSON.stringify(s) for a string s
RECURSIVE stringLength(_)
stringLength(s) ==
    IF Len(s) = 0 THEN 2
    ELSE (IF Head(s) \in {"\n", "\t", "\"", "\\"} THEN 2 ELSE 1) + stringLength(Tail(s))

\* the length of the decimal numeral of a natural number below 1000
numberLength(n) == IF n < 10 THEN 1 ELSE IF n < 100 THEN 2 ELSE 3

\* the sum of f over the sequence s
RECURSIVE sumOver(_, _)
sumOver(s, k) == IF k > Len(s) THEN 0 ELSE s[k] + sumOver(s, k + 1)

\* the length of an array of strings printed with indent 2 at depth 2
tagsLength(tags) ==
    IF Len(tags) = 0 THEN 2
    ELSE 2 + sumOver([i \in 1..Len(tags) |-> 6 + stringLength(tags[i])], 1)
           + 2 * (Len(tags) - 1) + 6

\* the length of the value of field f of a record on disk
valueLength(f, v) ==
    IF f = "content" THEN stringLength(v)
    ELSE IF f = "tags" THEN tagsLength(v)
    ELSE numberLength(v)

\* the name of a field as a sequence of characters has this length
fieldNameLength(f) ==
    IF f = "content" THEN 7
    ELSE IF f = "tags" THEN 4
    ELSE IF f = "importance" THEN 10
    ELSE IF f = "timestamp" THEN 9
    ELSE 12

\* the sum over the fields in F of the lengths of their lines
RECURSIVE fieldsLength(_, _)
fieldsLength(j, F) ==
    IF F = {} THEN 0
    ELSE LET f == CHOOSE g \in F : TRUE
         IN  4 + (2 + fieldNameLength(f)) + 2 + valueLength(f, j[f])
               + fieldsLength(j, F \ {f})

\* the length of one record printed with indent 2 at depth 1
recordLength(j) ==
    IF DOMAIN j = {} THEN 2
    ELSE 2 + fieldsLength(j, DOMAIN j) + 2 * (Cardinality(DOMAIN j) - 1) + 4

\* the length of JSON.stringify(topics, null, 2)
jsonLength(doc) ==
    IF Len(doc) = 0 THEN 2
    ELSE 2 + sumOver([i \in 1..Len(doc) |->
                         2 + stringLength(doc[i].name) + 2 + recordLength(doc[i].memory)], 1)
           + 2 * (Len(doc) - 1) + 2

\* the length of the file at path
lengthOf(fs, tn, path) ==
    IF path \in DOMAIN tn THEN tn[path] ELSE jsonLength(fs[path])

\* fs.writeFile, first half: open(path, 'w') creates the file or cuts it to
\* length 0
openTruncate(fs, tn, path) ==
    [files |-> [f \in DOMAIN fs \cup {path} |-> IF f \in DOMAIN fs THEN fs[f] ELSE <<>>],
     torn  |-> [f \in DOMAIN tn \cup {path} |-> IF f = path THEN 0 ELSE tn[f]]]

\* fs.writeFile, second half: the text of doc is written from the start of
\* the file; what the file held beyond the length of the text stays
writeAtStart(fs, tn, path, doc) ==
    IF lengthOf(fs, tn, path) <= jsonLength(doc)
    THEN [files |-> [fs EXCEPT ![path] = doc],
          torn  |-> [f \in DOMAIN tn \ {path} |-> tn[f]]]
    ELSE [files |-> fs,
          torn  |-> [f \in DOMAIN tn \cup {path} |->
                        IF f = path THEN lengthOf(fs, tn, path) ELSE tn[f]]]

\* what loadProject meets at its fs.readFile
observedAt(fs, tn, path, readThrows) ==
    IF path \notin DOMAIN fs THEN "missing"
    ELSE IF readThrows THEN "error"
    ELSE IF path \in DOMAIN tn THEN "torn"
    ELSE "whole"

\* loadProject from its fs.readFile on: the parsed document, and {} from the
\* catch when the read fails or JSON.parse throws
readProject(fs, tn, projectName, readThrows) ==
    IF observedAt(fs, tn, getProjectPath(projectName), readThrows) = "whole"
    THEN JSONParse(fs[getProjectPath(projectName)])
    ELSE <<>>

\* storeTopicMemory between its load and its save
storeInto(topics, clock, topic, a) ==
    setProp(topics, topic,
            [content      |-> <<a.content>>,
             tags         |-> <<a.tags>>,
             importance   |-> <<clamp(a.importance)>>,
             timestamp    |-> timestampOrNow(getProp(topics, topic), clock),
             lastModified |-> <<clock>>])

\* updateTopicMemory between its load and its save
updateIn(topics, clock, topic, patch) ==
    setProp(topics, topic,
            [content      |-> IF argOf(patch, "content") # Undefined
                              THEN argOf(patch, "content")
                              ELSE propOf(getProp(topics, topic), "content"),
             tags         |-> IF argOf(patch, "tags") # Undefined
                              THEN argOf(patch, "tags")
                              ELSE propOf(getProp(topics, topic), "tags"),
             importance   |-> IF argOf(patch, "importance") # Undefined
                              THEN <<clamp(patch["importance"])>>
                              ELSE propOf(getProp(topics, topic), "importance"),
             timestamp    |-> propOf(getProp(topics, topic), "timestamp"),
             lastModified |-> <<clock>>])

\* what a mutation does with the topics it has loaded: whether it goes on to
\* saveProject, whether it throws, and the topics it saves
mutated(o, topics, clock) ==
    IF o.op = "store"
    THEN [writes |-> TRUE, threw |-> FALSE,
          topics |-> storeInto(topics, clock, o.topic, o.args)]
    ELSE IF o.op = "update"
    THEN (IF truthy(getProp(topics, o.topic))
          THEN [writes |-> TRUE, threw |-> FALSE,
                topics |-> updateIn(topics, clock, o.topic, o.args)]
          ELSE [writes |-> FALSE, threw |-> TRUE, topics |-> topics])
    ELSE IF o.op = "delete"
    THEN (IF truthy(getProp(topics, o.topic))
          THEN [writes |-> TRUE, threw |-> FALSE,
                topics |-> deleteProp(topics, o.topic)]
          ELSE [writes |-> FALSE, threw |-> FALSE, topics |-> topics])
    ELSE [writes |-> TRUE, threw |-> FALSE,
          topics |-> initializeFrom(topics, 1, clock)]

---------------------------------------------------------------------------
(* The memory store: one file per memory, behind an LRU cache *)

MemoryFields == {"id", "content", "tags", "importance", "timestamp", "projectContext"}

\* JSON.parse of a memory file
parseMemory(j) ==
    [f \in MemoryFields |-> IF f \in DOMAIN j THEN <<j[f]>> ELSE Undefined]

\* JSON.stringify(memory, null, 2)
stringifyMemory(m) ==
    [f \in {g \in MemoryFields : m[g] # Undefined} |-> m[f][1]]

\* this.projectContext.name, fixed at construction
projectContextName == projectContext.name

cacheHas(c, id) == \E i \in 1..Len(c) : c[i].key = id

cacheIndex(c, id) == CHOOSE i \in 1..Len(c) : c[i].key = id

cacheWithout(c, id) == SelectSeq(c, LAMBDA e : e.key # id)

\* LRUCache.delete
cacheDelete(c, id) == cacheWithout(c, id)

\* LRUCache.set: the entry becomes the most recently used and its lifetime
\* starts again; a new key evicts the least recently used entry of a full
\* cache
cacheSet(c, clock, id, m) ==
    LET entry == [key |-> id, value |-> m, start |-> clock]
    IN  IF cacheHas(c, id) THEN Append(cacheWithout(c, id), entry)
        ELSE IF Len(c) >= CacheMax THEN Append(Tail(c), entry)
        ELSE Append(c, entry)

\* LRUCache.get: an entry older than its lifetime is dropped and gives
\* undefined; a live one becomes the most recently used
cacheGet(c, clock, id) ==
    IF ~cacheHas(c, id) THEN [value |-> Undefined, cache |-> c]
    ELSE LET e == c[cacheIndex(c, id)]
         IN  IF clock - e.start > CacheTtl
             THEN [value |-> Undefined, cache |-> cacheWithout(c, id)]
             ELSE [value |-> <<e.value>>, cache |-> Append(cacheWithout(c, id), e)]

\* persistMemory: the file <id>.json is written whole
persistMemory(dk, m) ==
    [i \in DOMAIN dk \cup {m.id[1]} |-> IF i = m.id[1] THEN stringifyMemory(m) ELSE dk[i]]

\* generateMemoryId: the time and a random suffix
generateMemoryId(clock, random) == <<"m", "e", "m", "-", clock, "-", random>>

\* storeMemory: the new memory, the cache and the directory it leaves
storeMemory(dk, c, clock, random, content, tags, importance) ==
    LET m == [id             |-> <<generateMemoryId(clock, random)>>,
              content        |-> <<content>>,
              tags           |-> <<tags>>,
              importance     |-> <<clamp(importance)>>,
              timestamp      |-> <<clock>>,
              projectContext |-> <<projectContextName>>]
    IN  [memory |-> <<m>>,
         cache  |-> cacheSet(c, clock, m.id[1], m),
         disk   |-> persistMemory(dk, m)]

\* getMemory that trusts the cache alone and never reads the file
getMemory_CacheOnly(dk, c, clock, id) ==
    LET cached == cacheGet(c, clock, id)
    IN  [memory |-> cached.value, cache |-> cached.cache, disk |-> dk]

\* getMemory: the cached memory, else the file, which then enters the cache
getMemory(dk, c, clock, id) ==
    LET cached == cacheGet(c, clock, id)
    IN  IF cached.value # Undefined
        THEN [memory |-> cached.value, cache |-> cached.cache, disk |-> dk]
        ELSE IF id \in DOMAIN dk
             THEN [memory |-> <<parseMemory(dk[id])>>,
                   cache  |-> cacheSet(cached.cache, clock, id, parseMemory(dk[id])),
                   disk   |-> dk]
             ELSE [memory |-> Undefined, cache |-> cached.cache, disk |-> dk]

\* updateMemory that refreshes the cache and leaves the file as it was
updateMemory_NoPersist(dk, c, clock, id, patch) ==
    LET got == getMemory(dk, c, clock, id)
    IN  IF got.memory = Undefined
        THEN [result |-> FALSE, cache |-> got.cache, disk |-> dk]
        ELSE LET m == [got.memory[1] EXCEPT
                          !["content"] = IF argOf(patch, "content") # Undefined
                                         THEN argOf(patch, "content") ELSE @,
                          !["tags"] = IF argOf(patch, "tags") # Undefined
                                      THEN argOf(patch, "tags") ELSE @,
                          !["importance"] = IF argOf(patch, "importance") # Undefined
                                            THEN <<clamp(patch["importance"])>> ELSE @]
             IN  [result |-> TRUE,
                  cache  |-> cacheSet(got.cache, clock, id, m),
                  disk   |-> dk]

\* updateMemory: false when the memory is not found
updateMemory(dk, c, clock, id, patch) ==
    LET got == getMemory(dk, c, clock, id)
    IN  IF got.memory = Undefined
        THEN [result |-> FALSE, cache |-> got.cache, disk |-> dk]
        ELSE LET m == [got.memory[1] EXCEPT
                          !["content"] = IF argOf(patch, "content") # Undefined
                                         THEN argOf(patch, "content") ELSE @,
                          !["tags"] = IF argOf(patch, "tags") # Undefined
                                      THEN argOf(patch, "tags") ELSE @,
                          !["importance"] = IF argOf(patch, "importance") # Undefined
                                            THEN <<clamp(patch["importance"])>> ELSE @]
             IN  [result |-> TRUE,
                  cache  |-> cacheSet(got.cache, clock, id, m),
                  disk   |-> persistMemory(dk, m)]

\* deleteMemory that removes the file and leaves the cache entry
deleteMemory_KeepCache(dk, c, id, unlinkThrows) ==
    IF id \in DOMAIN dk /\ unlinkThrows
    THEN [result |-> FALSE, cache |-> c, disk |-> dk]
    ELSE [result |-> TRUE,
          cache  |-> c,
          disk   |-> [i \in DOMAIN dk \ {id} |-> dk[i]]]

\* deleteMemory: out of the cache, and the file removed when it exists;
\* false, with the file left, when fs.unlink throws
deleteMemory(dk, c, id, unlinkThrows) ==
    IF id \in DOMAIN dk /\ unlinkThrows
    THEN [result |-> FALSE, cache |-> cacheDelete(c, id), disk |-> dk]
    ELSE [result |-> TRUE,
          cache  |-> cacheDelete(c, id),
          disk   |-> [i \in DOMAIN dk \ {id} |-> dk[i]]]

\* fs.readdir: the files of the memory directory, in an order the file
\* system chooses
readdir(dk) ==
    {o \in [1..Cardinality(DOMAIN dk) -> DOMAIN dk] :
        \A i, j \in 1..Cardinality(DOMAIN dk) : o[i] = o[j] => i = j}

\* loadAllMemories: every file parsed, in the order readdir gave
loadAllMemories(dk, order) ==
    [i \in 1..Len(order) |-> parseMemory(dk[order[i]])]

\* a < b on numbers, false when one of them is undefined
lessThan(a, b) == a # Undefined /\ b # Undefined /\ a[1] < b[1]

\* the loop of cleanupOldMemories, from the k-th loaded memory on
RECURSIVE cleanupFrom(_, _, _, _, _, _)
cleanupFrom(memories, k, cutoffTime, dk, c, deletedCount) ==
    IF k > Len(memories)
    THEN [result |-> deletedCount, cache |-> c, disk |-> dk]
    ELSE IF /\ lessThan(memories[k].timestamp, <<cutoffTime>>)
            /\ lessThan(memories[k].importance, <<5>>)
         THEN LET d == deleteMemory(dk, c, memories[k].id[1], FALSE)
              IN  cleanupFrom(memories, k + 1, cutoffTime, d.disk, d.cache,
                              IF d.result THEN deletedCount + 1 ELSE deletedCount)
         ELSE cleanupFrom(memories, k + 1, cutoffTime, dk, c, deletedCount)

\* cleanupOldMemories with the current time as the cutoff, whatever maxAge
cleanupOldMemories_IgnoreMaxAge(dk, c, clock, maxAge, order) ==
    cleanupFrom(loadAllMemories(dk, order), 1, clock, dk, c, 0)

\* cleanupOldMemories(maxAge)
cleanupOldMemories(dk, c, clock, maxAge, order) ==
    cleanupFrom(loadAllMemories(dk, order), 1, clock - maxAge, dk, c, 0)

\* the filter of searchMemories without the tags argument
memoryMatches_NoTagFilter(memory, lowerQuery, tags) ==
    \/ includes(toLowerCase(memory.content[1]), lowerQuery)
    \/ \E i \in 1..Len(memory.tags[1]) :
           includes(toLowerCase(memory.tags[1][i]), lowerQuery)

\* the filter of searchMemories; tags is the optional argument
memoryMatches(memory, lowerQuery, tags) ==
    LET contentMatch == includes(toLowerCase(memory.content[1]), lowerQuery)
        tagMatch == \E i \in 1..Len(memory.tags[1]) :
                        includes(toLowerCase(memory.tags[1][i]), lowerQuery)
        tagFilter == \/ tags = Undefined
                     \/ Len(tags[1]) = 0
                     \/ \E i \in 1..Len(tags[1]) : \E j \in 1..Len(memory.tags[1]) :
                            memory.tags[1][j] = tags[1][i]
    IN  (contentMatch \/ tagMatch) /\ tagFilter

\* b.importance - a.importance || b.timestamp - a.timestamp
compareMemories(a, b) ==
    IF b.importance[1] - a.importance[1] # 0
    THEN b.importance[1] - a.importance[1]
    ELSE b.timestamp[1] - a.timestamp[1]

\* x put behind every element of the sorted s that does not come after it
RECURSIVE insertMemory(_, _)
insertMemory(s, x) ==
    IF Len(s) = 0 THEN <<x>>
    ELSE IF compareMemories(s[Len(s)], x) <= 0
         THEN Append(s, x)
         ELSE Append(insertMemory(SubSeq(s, 1, Len(s) - 1), x), s[Len(s)])

\* filtered.sort(...): a stable sort by compareMemories
RECURSIVE sortMemories(_, _, _)
sortMemories(s, k, acc) ==
    IF k > Len(s) THEN acc ELSE sortMemories(s, k + 1, insertMemory(acc, s[k]))

\* Array.prototype.slice(0, end) of a list of memories
sliceMemories(s, end) ==
    SubSeq(s, 1, IF end < 0 THEN Max(Len(s) + end, 0) ELSE Min(end, Len(s)))

\* searchMemories(query, tags, limit)
searchMemories(dk, order, query, tags, limit) ==
    LET allMemories == loadAllMemories(dk, order)
        lowerQuery  == toLowerCase(query)
        filtered    == SelectSeq(allMemories,
                                 LAMBDA m : memoryMatches(m, lowerQuery, tags))
    IN  sliceMemories(sortMemories(filtered, 1, <<>>), limit)

\* listMemories(tags, limit) with the default sortBy 'timestamp'
compareByTimestamp(a, b) == b.timestamp[1] - a.timestamp[1]

RECURSIVE insertByTimestamp(_, _)
insertByTimestamp(s, x) ==
    IF Len(s) = 0 THEN <<x>>
    ELSE IF compareByTimestamp(s[Len(s)], x) <= 0
         THEN Append(s, x)
         ELSE Append(insertByTimestamp(SubSeq(s, 1, Len(s) - 1), x), s[Len(s)])

RECURSIVE sortByTimestamp(_, _, _)
sortByTimestamp(s, k, acc) ==
    IF k > Len(s) THEN acc ELSE sortByTimestamp(s, k + 1, insertByTimestamp(acc, s[k]))

listMemories(dk, order, tags, limit) ==
    LET allMemories == loadAllMemories(dk, order)
        filtered    == IF tags # Undefined /\ Len(tags[1]) > 0
                       THEN SelectSeq(allMemories,
                                LAMBDA m : \E i \in 1..Len(tags[1]) :
                                    \E j \in 1..Len(m.tags[1]) : m.tags[1][j] = tags[1][i])
                       ELSE allMemories
    IN  sliceMemories(sortByTimestamp(filtered, 1, <<>>), limit)

---------------------------------------------------------------------------
(* The memory store step by step *)

\* the memory that storeMemory builds
newMemory(clock, random, a) ==
    [id             |-> <<generateMemoryId(clock, random)>>,
     content        |-> <<a.content>>,
     tags           |-> <<a.tags>>,
     importance     |-> <<clamp(a.importance)>>,
     timestamp      |-> <<clock>>,
     projectContext |-> <<projectContextName>>]

\* updateMemory: the fields of the patch written into the memory
patched(m, patch) ==
    [m EXCEPT !["content"] = IF argOf(patch, "content") # Undefined
                             THEN argOf(patch, "content") ELSE @,
              !["tags"] = IF argOf(patch, "tags") # Undefined
                          THEN argOf(patch, "tags") ELSE @,
              !["importance"] = IF argOf(patch, "importance") # Undefined
                                THEN <<clamp(patch["importance"])>> ELSE @]

\* the memory file of id can be read and parsed
readable(dk, tn, id) == id \in DOMAIN dk /\ id \notin DOMAIN tn

\* fs.writeFile of persistMemory, first half: the file is created or cut to
\* length 0
openMemoryFile(dk, tn, id) ==
    [disk |-> [i \in DOMAIN dk \cup {id} |-> IF i \in DOMAIN dk THEN dk[i] ELSE <<>>],
     torn |-> [i \in DOMAIN tn \cup {id} |-> IF i = id THEN 0 ELSE tn[i]]]

\* fs.unlink of the memory file
unlinkMemoryFile(dk, tn, id) ==
    [disk |-> [i \in DOMAIN dk \ {id} |-> dk[i]],
     torn |-> [i \in DOMAIN tn \ {id} |-> tn[i]]]

---------------------------------------------------------------------------
(* Project identity: validation and sanitization of candidate names *)

\* the list invalidNames of isValidProjectName, as it is written
invalidNames ==
    <<
      <<"s", "r", "c">>, <<"d", "i", "s", "t">>,
      <<"b", "u", "i", "l", "d">>, <<"o", "u", "t">>, <<"b", "i", "n">>,
      <<"l", "i", "b">>,
      <<"n", "o", "d", "e", "_", "m", "o", "d", "u", "l", "e", "s">>,
      <<"U", "s", "e", "r", "s">>,
      <<"D", "o", "c", "u", "m", "e", "n", "t", "s">>,
      <<"D", "e", "s", "k", "t", "o", "p">>,
      <<"D", "o", "w", "n", "l", "o", "a", "d", "s">>,
      <<"A", "p", "p", "D", "a", "t", "a">>,
      <<"P", "r", "o", "g", "r", "a", "m", " ", "F", "i", "l", "e", "s">>,
      <<"W", "i", "n", "d", "o", "w", "s">>,
      <<"S", "y", "s", "t", "e", "m", "3", "2">>, <<"t", "e", "m", "p">>,
      <<"t", "m", "p">>, <<".">>, <<".", ".">>,
      <<"a", "n", "d", "r", "e">>, <<"u", "s", "e", "r">>,
      <<"a", "d", "m", "i", "n">>, <<"h", "o", "m", "e">>,
      <<"r", "o", "o", "t">>, <<"d", "e", "v">>,
      <<"m", "i", "c", "r", "o", "s", "o", "f", "t", "-", "v", "s", "-", "c", "o", "d", "e">>,
      <<"v", "s", "-", "c", "o", "d", "e">>,
      <<"v", "s", "c", "o", "d", "e">>, <<"c", "o", "d", "e">>,
      <<"v", "i", "s", "u", "a", "l", "-", "s", "t", "u", "d", "i", "o", "-", "c", "o", "d", "e">>,
      <<"m", "i", "c", "r", "o", "s", "o", "f", "t">>,
      <<"e", "l", "e", "c", "t", "r", "o", "n">>,
      <<"e", "x", "t", "e", "n", "s", "i", "o", "n", "s">>,
      <<"e", "x", "t", "e", "n", "s", "i", "o", "n">>,
      <<"c", "r", "a", "s", "h">>, <<"c", "r", "a", "s", "h", "e", "s">>,
      <<"l", "o", "g", "s">>, <<"l", "o", "g">>,
      <<"c", "a", "c", "h", "e">>, <<"c", "a", "c", "h", "e", "s">>
    >>

\* the list forbiddenPatterns of isValidProjectName
forbiddenPatterns ==
    <<
      <<"m", "i", "c", "r", "o", "s", "o", "f", "t">>,
      <<"v", "s", "-", "c", "o", "d", "e">>,
      <<"v", "s", "c", "o", "d", "e">>,
      <<"v", "i", "s", "u", "a", "l", "-", "s", "t", "u", "d", "i", "o">>,
      <<"e", "l", "e", "c", "t", "r", "o", "n">>,
      <<"e", "x", "t", "e", "n", "s", "i", "o", "n">>,
      <<"c", "r", "a", "s", "h">>, <<"l", "o", "g">>,
      <<"c", "a", "c", "h", "e">>, <<"u", "s", "e", "r">>,
      <<"a", "d", "m", "i", "n">>, <<"s", "y", "s", "t", "e", "m">>,
      <<"w", "i", "n", "d", "o", "w", "s">>,
      <<"a", "p", "p", "d", "a", "t", "a">>
    >>

\* the list blockedPaths of isSystemOrVSCodePath
blockedPaths ==
    <<
      <<"a", "p", "p", "d", "a", "t", "a">>,
      <<"m", "i", "c", "r", "o", "s", "o", "f", "t">>,
      <<"v", "s", "-", "c", "o", "d", "e">>,
      <<"v", "s", "c", "o", "d", "e">>,
      <<"v", "i", "s", "u", "a", "l", "-", "s", "t", "u", "d", "i", "o">>,
      <<"e", "l", "e", "c", "t", "r", "o", "n">>,
      <<"e", "x", "t", "e", "n", "s", "i", "o", "n">>,
      <<"e", "x", "t", "e", "n", "s", "i", "o", "n", "s">>,
      <<"c", "r", "a", "s", "h">>, <<"c", "r", "a", "s", "h", "e", "s">>,
      <<"l", "o", "g", "s">>, <<"l", "o", "g">>,
      <<"c", "a", "c", "h", "e">>, <<"c", "a", "c", "h", "e", "s">>,
      <<"t", "e", "m", "p">>, <<"t", "m", "p">>,
      <<"p", "r", "o", "g", "r", "a", "m", " ", "f", "i", "l", "e", "s">>,
      <<"w", "i", "n", "d", "o", "w", "s">>,
      <<"s", "y", "s", "t", "e", "m", "3", "2">>,
      <<"u", "s", "e", "r", "s", "\\", "a", "n", "d", "r", "e">>,
      <<"u", "s", "e", "r", "s", "\\", "u", "s", "e", "r">>,
      <<"u", "s", "e", "r", "s", "\\", "a", "d", "m", "i", "n">>
    >>

Letters == {LowerOf[k] : k \in DOMAIN LowerOf}
Digits  == {"0", "1", "2", "3", "4", "5", "6", "7", "8", "9"}

\* Array.prototype.includes: some element of list is equal to x
listIncludes(list, x) == \E i \in 1..Len(list) : list[i] = x

\* isValidProjectName
isValidProjectName(name) ==
    IF Len(name) < 2 THEN FALSE
    ELSE LET lowerName == toLowerCase(name)
         IN  IF \E i \in 1..Len(forbiddenPatterns) :
                    includes(lowerName, forbiddenPatterns[i])
             THEN FALSE
             ELSE /\ ~listIncludes(invalidNames, lowerName)
                  /\ ~(Len(lowerName) = 1 /\ lowerName[1] \in Letters)
                  /\ ~(Len(lowerName) = 1 /\ lowerName[1] \in Letters \ {"a", "b"})

\* .replace(/^(-+)|(-+)$/g, ''): the leading and the trailing run of dashes
RECURSIVE trimDashes(_)
trimDashes(s) ==
    IF Len(s) = 0 THEN s
    ELSE IF s[1] = "-" THEN trimDashes(Tail(s))
    ELSE IF s[Len(s)] = "-" THEN trimDashes(SubSeq(s, 1, Len(s) - 1))
    ELSE s

\* .replace(/-+/g, '-'): every run of dashes becomes one dash
RECURSIVE collapseDashes(_)
collapseDashes(s) ==
    IF Len(s) < 2 THEN s
    ELSE IF s[1] = "-" /\ s[2] = "-" THEN collapseDashes(Tail(s))
    ELSE <<s[1]>> \o collapseDashes(Tail(s))

\* String.prototype.substring(0, n)
substring0(s, n) == SubSeq(s, 1, Min(n, Len(s)))

ProjectDefault == <<"p", "r", "o", "j", "e", "c", "t">>

\* sanitizeProjectName without its substring(0, 50)
sanitizeProjectName_NoTruncate(name) ==
    LET lower    == toLowerCase(name)
        replaced == [i \in 1..Len(lower) |->
                        IF lower[i] \in Letters \cup Digits \cup {"-", "_"}
                        THEN lower[i] ELSE "-"]
        cut      == collapseDashes(trimDashes(replaced))
    IN  IF Len(cut) = 0 THEN ProjectDefault ELSE cut

\* sanitizeProjectName
sanitizeProjectName(name) ==
    LET lower    == toLowerCase(name)
        replaced == [i \in 1..Len(lower) |->
                        IF lower[i] \in Letters \cup Digits \cup {"-", "_"}
                        THEN lower[i] ELSE "-"]
        cut      == substring0(collapseDashes(trimDashes(replaced)), 50)
    IN  IF Len(cut) = 0 THEN ProjectDefault ELSE cut

\* the part of p behind its last /
RECURSIVE lastSegment(_)
lastSegment(p) ==
    IF Len(p) = 0 THEN p
    ELSE IF p[Len(p)] = "/" THEN <<>>
    ELSE lastSegment(SubSeq(p, 1, Len(p) - 1)) \o <<p[Len(p)]>>

\* p without the / at its end
RECURSIVE stripSeparators(_)
stripSeparators(p) ==
    IF Len(p) > 0 /\ p[Len(p)] = "/"
    THEN stripSeparators(SubSeq(p, 1, Len(p) - 1))
    ELSE p

\* path.basename on a path with / separators
basename(p) == lastSegment(stripSeparators(p))

\* path.dirname on an absolute path with / separators
RECURSIVE dirname(_)
dirname(p) ==
    IF Len(p) <= 1 THEN <<"/">>
    ELSE IF p[Len(p)] = "/"
         THEN (IF Len(p) = 1 THEN p ELSE SubSeq(p, 1, Len(p) - 1))
         ELSE dirname(SubSeq(p, 1, Len(p) - 1))

\* isSystemOrVSCodePath
isSystemOrVSCodePath(dirPath) ==
    \E i \in 1..Len(blockedPaths) : includes(toLowerCase(dirPath), blockedPaths[i])

---------------------------------------------------------------------------
(* Project identity: the environment that detection reads *)

\* what one probe of a strategy arrives at: nothing, an error thrown inside
\* the strategy, or a name
NoCandidate == [kind |-> "none"]
Thrown      == [kind |-> "throws"]
Found(n)    == [kind |-> "found", name |-> n]

HomeDir    == <<"/", "u", "/", "m", "e">>
ShopDir    == <<"/", "w", "/", "s", "h", "o", "p">>
NotesDir   == <<"/", "w", "/", "n", "o", "t", "e", "s">>
DesktopDir == <<"/", "w", "/", "D", "e", "s", "k", "t", "o", "p">>
TmpApiDir  == <<"/", "t", "m", "p", "/", "a", "p", "i">>
GoneDir    == <<"/", "w", "/", "g", "o", "n", "e">>

\* candidate names: two that pass validation, one of the denylist as it is
\* written, one lower-case entry of the denylist, one with a scope
NotesName     == <<"N", "o", "t", "e", "s">>
WebName       == <<"W", "e", "b">>
MyAppName     == <<"M", "y", " ", "A", "p", "p">>
ApiName       == <<"A", "p", "i">>
DocumentsName == <<"D", "o", "c", "u", "m", "e", "n", "t", "s">>
SrcName       == <<"s", "r", "c">>
ScopedName    == <<"@", "a", "c", "m", "e", "/", "a", "p", "i">>
BasenameVar   == <<"$", "{", "w", "o", "r", "k", "s", "p", "a", "c", "e", "F", "o", "l", "d", "e", "r", "B", "a", "s", "e", "n", "a", "m", "e", "}">>
MarkerText    == <<"A", "p", "i", "\n">>

UnknownProject == <<"u", "n", "k", "n", "o", "w", "n", "-", "p", "r", "o", "j", "e", "c", "t">>

\* the directories that exist (existsSync)
ExistingDirs == {HomeDir, ShopDir, NotesDir, DesktopDir, TmpApiDir}

\* the environment of a process started in /w/shop with nothing configured
EmptySnapshot ==
    [ win32            |-> FALSE,
      cwd              |-> [kind |-> "dir", path |-> ShopDir],
      projectDirs      |-> {},
      gitRoots         |-> {},
      TERM_PROGRAM     |-> Undefined,
      markers          |-> [d \in {} |-> NoCandidate],
      MCP_PROJECT_NAME |-> Undefined,
      MCP_PROJECT_PATH |-> Undefined,
      MEMORY_BANK_ROOT |-> Undefined,
      argvProject      |-> Undefined,
      workspaceFolder  |-> Undefined,
      advancedStorage  |-> NoCandidate,
      advancedPattern  |-> NoCandidate,
      activeStorage    |-> NoCandidate,
      packageName      |-> NoCandidate,
      vscodeConfig     |-> NoCandidate,
      npxContext       |-> NoCandidate,
      enhanced         |-> NoCandidate,
      workspace        |-> NoCandidate,
      commonPatterns   |-> NoCandidate,
      recentWorkspaces |-> NoCandidate,
      settings         |-> NoCandidate ]

\* what a probe can be arranged to arrive at
ProbeOutcomes == {Thrown, Found(ApiName), Found(SrcName)}

\* the same without the name that fails validation
PlainOutcomes == {Thrown, Found(ApiName)}

\* the values each part of the environment can be set to
Alternatives ==
    [ win32            |-> {TRUE},
      cwd              |-> {[kind |-> "dir", path |-> HomeDir],
                            [kind |-> "dir", path |-> DesktopDir],
                            [kind |-> "dir", path |-> TmpApiDir],
                            [kind |-> "throws", path |-> <<>>]},
      projectDirs      |-> {{ShopDir}, {ShopDir, NotesDir}, {DesktopDir},
                            {TmpApiDir, HomeDir}},
      gitRoots         |-> {{TmpApiDir}},
      TERM_PROGRAM     |-> {<<"vscode">>},
      markers          |-> {[d \in {ShopDir} |-> Found(MarkerText)],
                            [d \in {<<"/">>} |-> Found(MarkerText)],
                            [d \in {ShopDir} |-> Thrown]},
      MCP_PROJECT_NAME |-> {<<NotesName>>, <<MyAppName>>, <<DocumentsName>>,
                            <<SrcName>>, <<BasenameVar>>},
      MCP_PROJECT_PATH |-> {<<NotesDir>>, <<GoneDir>>, <<TmpApiDir>>},
      argvProject      |-> {<<ApiName>>, <<SrcName>>},
      workspaceFolder  |-> {<<NotesDir>>},
      advancedStorage  |-> ProbeOutcomes,
      advancedPattern  |-> PlainOutcomes,
      activeStorage    |-> ProbeOutcomes,
      packageName      |-> ProbeOutcomes \cup {Found(ScopedName)},
      vscodeConfig     |-> ProbeOutcomes,
      npxContext       |-> PlainOutcomes,
      enhanced         |-> PlainOutcomes,
      workspace        |-> PlainOutcomes,
      commonPatterns   |-> PlainOutcomes,
      recentWorkspaces |-> PlainOutcomes,
      settings         |-> PlainOutcomes ]

\* what the commands run on the editor's processes and registry can report
ProcessOutcomes == {NoCandidate, Thrown, Found(WebName), Found(SrcName)}

---------------------------------------------------------------------------
(* Project identity: the detection strategies *)

\* what a strategy returns: { name: string | null, source }
noName(label)   == [name |-> Undefined, source |-> [label |-> label, of |-> <<>>]]
named(n, label) == [name |-> <<n>>, source |-> [label |-> label, of |-> n]]

\* a probe that found a name passing isValidProjectName; a probe that threw
\* is caught inside its strategy, which goes on to its next probe
usable(o) == o.kind = "found" /\ isValidProjectName(o.name)

\* hasProjectIndicators
hasProjectIndicators(s, dirPath) == dirPath \in s.projectDirs \cup s.gitRoots

\* the walk of resolveWorkspaceFolder up to the directory that holds .git
RECURSIVE gitRootFrom(_, _)
gitRootFrom(s, currentPath) ==
    IF currentPath = dirname(currentPath) THEN NoCandidate
    ELSE IF currentPath \in s.gitRoots THEN Found(currentPath)
    ELSE gitRootFrom(s, dirname(currentPath))

\* resolveWorkspaceFolder: process.cwd() throws out of it
resolveWorkspaceFolder(s) ==
    IF /\ s.workspaceFolder # Undefined
       /\ s.workspaceFolder[1] \in ExistingDirs
       /\ hasProjectIndicators(s, s.workspaceFolder[1])
    THEN Found(s.workspaceFolder[1])
    ELSE IF s.cwd.kind = "throws" THEN Thrown
    ELSE IF hasProjectIndicators(s, s.cwd.path) /\ ~isSystemOrVSCodePath(s.cwd.path)
         THEN Found(s.cwd.path)
    ELSE gitRootFrom(s, s.cwd.path)

\* the basename of the workspace folder, when it passes validation
validBasename(workspaceFolder) ==
    IF workspaceFolder.kind = "throws" THEN Thrown
    ELSE IF /\ workspaceFolder.kind = "found"
            /\ isValidProjectName(basename(workspaceFolder.name))
         THEN Found(basename(workspaceFolder.name))
    ELSE NoCandidate

\* resolveWorkspaceFolderBasename
resolveWorkspaceFolderBasename(s) == validBasename(resolveWorkspaceFolder(s))

\* String.prototype.replace(q, r): replaces the first occurrence of q
replaceFirst(s, q, r) ==
    IF ~includes(s, q) THEN s
    ELSE LET i == CHOOSE k \in 0..(Len(s) - Len(q)) :
                     /\ SubSeq(s, k + 1, k + Len(q)) = q
                     /\ \A j \in 0..(k - 1) : SubSeq(s, j + 1, j + Len(q)) # q
         IN  SubSeq(s, 1, i) \o r \o SubSeq(s, i + Len(q) + 1, Len(s))

\* str with ${workspaceFolderBasename} replaced by resolvedName, when there
\* is one
substituted(str, resolvedName) ==
    IF resolvedName.kind = "throws" THEN Thrown
    ELSE IF resolvedName.kind = "found"
         THEN Found(replaceFirst(str, BasenameVar, resolvedName.name))
    ELSE Found(str)

\* resolveVSCodeVariablesInString: ${workspaceFolderBasename} in str becomes
\* the basename of the workspace folder when that resolves; str is left as
\* it is otherwise
resolveVSCodeVariablesInString(str, s) ==
    IF ~includes(str, BasenameVar) THEN Found(str)
    ELSE substituted(str, resolveWorkspaceFolderBasename(s))

\* String.prototype.trim on the white space of the marker file
RECURSIVE trim(_)
trim(s) ==
    IF Len(s) = 0 THEN s
    ELSE IF s[1] \in {" ", "\n"} THEN trim(Tail(s))
    ELSE IF s[Len(s)] \in {" ", "\n"} THEN trim(SubSeq(s, 1, Len(s) - 1))
    ELSE s

\* the name read from the marker file of currentDir, after substitution
markerName(s, currentDir) ==
    IF currentDir \in DOMAIN s.markers /\ s.markers[currentDir].kind = "found"
    THEN resolveVSCodeVariablesInString(trim(s.markers[currentDir].name), s)
    ELSE NoCandidate

\* projectName && this.isValidProjectName(projectName) on a value read
\* without error
nonEmptyValid(projectName) ==
    /\ projectName.kind = "found"
    /\ Len(projectName.name) > 0
    /\ isValidProjectName(projectName.name)

\* one round of the loop of detectUserSpecifiedProject
markerStep(projectName, otherwise) ==
    IF nonEmptyValid(projectName)
    THEN named(projectName.name, "mcp-project file")
    ELSE otherwise

\* the loop of detectUserSpecifiedProject over .mcp-project in currentDir and
\* up to four directories above it
RECURSIVE markerWalk(_, _, _)
markerWalk(s, currentDir, i) ==
    IF i >= 5 THEN noName("no-user-config-found")
    ELSE markerStep(markerName(s, currentDir),
                    IF dirname(currentDir) = currentDir
                    THEN noName("no-user-config-found")
                    ELSE markerWalk(s, dirname(currentDir), i + 1))

\* a variable or argument after substitution, when it is set and not empty
resolvedOf(value, s) ==
    IF value # Undefined /\ Len(value[1]) > 0
    THEN resolveVSCodeVariablesInString(value[1], s)
    ELSE NoCandidate

\* detectUserSpecifiedProject: MCP_PROJECT_NAME
fromEnvProject(envProject, otherwise) ==
    IF envProject.kind = "throws" THEN noName("user-config-error")
    ELSE IF usable(envProject)
         THEN named(envProject.name,
                    "MCP_PROJECT_NAME environment variable (with variable resolution)")
    ELSE otherwise

\* detectUserSpecifiedProject: MCP_PROJECT_PATH
fromEnvPath(envPath, otherwise) ==
    IF envPath.kind = "throws" THEN noName("user-config-error")
    ELSE IF /\ envPath.kind = "found"
            /\ envPath.name \in ExistingDirs
            /\ ~isSystemOrVSCodePath(envPath.name)
            /\ isValidProjectName(basename(envPath.name))
         THEN named(basename(envPath.name),
                    "MCP_PROJECT_PATH environment variable (with variable resolution)")
    ELSE otherwise

\* detectUserSpecifiedProject: --project, -p
fromArgument(projectName, otherwise) ==
    IF projectName.kind = "throws" THEN noName("user-config-error")
    ELSE IF usable(projectName)
         THEN named(projectName.name, "command line argument")
    ELSE otherwise

\* detectUserSpecifiedProject
detectUserSpecifiedProject(s) ==
    fromEnvProject(resolvedOf(s.MCP_PROJECT_NAME, s),
        fromEnvPath(resolvedOf(s.MCP_PROJECT_PATH, s),
            fromArgument(resolvedOf(s.argvProject, s),
                IF s.cwd.kind = "throws" THEN noName("user-config-error")
                ELSE markerWalk(s, s.cwd.path, 0))))

\* detectVSCodeActiveWorkspaceAdvanced: the editor's storage, on win32 the
\* command line of its process, then the common project directories
detectVSCodeActiveWorkspaceAdvanced(s, p) ==
    IF usable(s.advancedStorage)
    THEN named(s.advancedStorage.name, "VS Code recent active folder")
    ELSE IF s.win32 /\ usable(p)
         THEN named(p.name, "VS Code active process folder")
    ELSE IF usable(s.advancedPattern)
         THEN named(s.advancedPattern.name, "Smart pattern detection")
    ELSE noName("advanced-workspace-detection-failed")

\* detectActiveVSCodeWorkspace: the editor's storage, then on win32 the title
\* of its window
detectActiveVSCodeWorkspace(s, p) ==
    IF usable(s.activeStorage)
    THEN named(s.activeStorage.name, "Active VS Code workspace storage")
    ELSE IF s.win32 /\ usable(p)
         THEN named(p.name, "VS Code active window title")
    ELSE noName("active-workspace-not-detected")

\* name.replace(/^@[^/]+\//, '')
removeScope(name) ==
    IF /\ Len(name) >= 3
       /\ name[1] = "@"
       /\ name[2] # "/"
       /\ \E k \in 3..Len(name) : name[k] = "/"
    THEN LET k == CHOOSE k \in 3..Len(name) :
                      /\ name[k] = "/"
                      /\ \A j \in 2..(k - 1) : name[j] # "/"
         IN  SubSeq(name, k + 1, Len(name))
    ELSE name

\* detectPackageNameWithSource: the name field of package.json in the
\* current directory, returned without validation
detectPackageNameWithSource(s) ==
    IF s.cwd.kind = "throws" THEN noName("package.json read error")
    ELSE IF s.packageName.kind = "throws" THEN noName("package.json read error")
    ELSE IF s.packageName.kind = "found" /\ Len(s.packageName.name) > 0
         THEN [name   |-> <<removeScope(s.packageName.name)>>,
               source |-> [label |-> "package.json", of |-> s.cwd.path]]
    ELSE noName("package.json not found or invalid")

\* detectFromVSCodeConfig
detectFromVSCodeConfig(s) ==
    IF usable(s.vscodeConfig) THEN named(s.vscodeConfig.name, "vscode-config-search")
    ELSE noName("vscode-config-not-found")

\* detectVSCodeWorkspaceFromParent
detectVSCodeWorkspaceFromParent(s) ==
    IF usable(s.npxContext) THEN named(s.npxContext.name, "npx-context-path")
    ELSE noName("parent-detection-failed")

\* detectVSCodeWorkspaceEnhanced: a folder among the arguments, then the
\* current directory and the one above it
detectVSCodeWorkspaceEnhanced(s) ==
    IF usable(s.enhanced) THEN named(s.enhanced.name, "process.argv")
    ELSE IF s.cwd.kind = "throws" THEN noName("enhanced-detection-error")
    ELSE LET currentDir == s.cwd.path
             parentDir  == dirname(currentDir)
         IN  IF /\ hasProjectIndicators(s, currentDir)
                /\ ~isSystemOrVSCodePath(currentDir)
                /\ isValidProjectName(basename(currentDir))
             THEN [name   |-> <<basename(currentDir)>>,
                   source |-> [label |-> "enhanced-current-directory-validation",
                               of |-> <<>>]]
             ELSE IF /\ hasProjectIndicators(s, parentDir)
                     /\ ~isSystemOrVSCodePath(parentDir)
                     /\ isValidProjectName(basename(parentDir))
                  THEN [name   |-> <<basename(parentDir)>>,
                        source |-> [label |-> "enhanced-parent-directory-validation",
                                    of |-> <<>>]]
             ELSE noName("enhanced-detection-failed")

\* detectVSCodeWorkspaceWithSource: the editor's environment variables, then
\* the current directory of a terminal of the editor
detectVSCodeWorkspaceWithSource(s) ==
    IF usable(s.workspace) THEN named(s.workspace.name, "VSCODE_WORKSPACE_NAME env var")
    ELSE IF s.TERM_PROGRAM # <<"vscode">> THEN noName("not-detected")
    ELSE IF s.cwd.kind = "throws" THEN noName("detection-error")
    ELSE IF /\ s.cwd.path # HomeDir
            /\ hasProjectIndicators(s, s.cwd.path)
            /\ ~isSystemOrVSCodePath(s.cwd.path)
            /\ isValidProjectName(basename(s.cwd.path))
         THEN [name   |-> <<basename(s.cwd.path)>>,
               source |-> [label |-> "VS Code terminal context with project indicators",
                           of |-> <<>>]]
    ELSE noName("not-detected")

\* detectProjectFromCommonPatterns
detectProjectFromCommonPatterns(s) ==
    IF usable(s.commonPatterns) THEN named(s.commonPatterns.name, "common-pattern")
    ELSE noName("no-common-patterns-found")

\* detectWorkspaceViaCommands: on win32 the process list and the registry,
\* then the editor's file of recent workspaces
detectWorkspaceViaCommands(s, p) ==
    IF s.win32 /\ usable(p) THEN named(p.name, "VS Code process command line")
    ELSE IF usable(s.recentWorkspaces)
         THEN named(s.recentWorkspaces.name, "VS Code recent workspaces")
    ELSE noName("command-detection-failed")

\* detectVSCodeWorkspaceFromSettings
detectVSCodeWorkspaceFromSettings(s) ==
    IF usable(s.settings) THEN named(s.settings.name, "VS Code recent workspace")
    ELSE noName("vs-code-settings-not-found")

---------------------------------------------------------------------------
(* Project identity: the cascade and the construction of the manager *)

\* result.name && this.isValidProjectName(result.name)
accepted(result) ==
    /\ result.name # Undefined
    /\ Len(result.name[1]) > 0
    /\ isValidProjectName(result.name[1])

\* the extra test on the results of the enhanced and the workspace strategy
notReserved(result) ==
    \/ result.name = Undefined
    \/ result.name[1] \notin {<<"m", "i", "c", "r", "o", "s", "o", "f", "t", "-", "v", "s", "-", "c", "o", "d", "e">>,
                              <<"a", "n", "d", "r", "e">>,
                              <<"u", "s", "e", "r">>}

\* the identity returned for the result of a strategy
detected(result, method) ==
    [name   |-> sanitizeProjectName(result.name[1]),
     method |-> method,
     source |-> result.source]

\* the first result, in order, that the cascade accepts
firstAccepted(results) ==
    IF \E i \in 1..Len(results) : accepted(results[i].result) /\ results[i].extra
    THEN LET i == CHOOSE k \in 1..Len(results) :
                      /\ accepted(results[k].result) /\ results[k].extra
                      /\ \A j \in 1..(k - 1) :
                            ~(accepted(results[j].result) /\ results[j].extra)
         IN  <<detected(results[i].result, results[i].method)>>
    ELSE <<>>

\* the strategies of detectProjectNameWithSource ahead of its read of the
\* current directory, user configuration moved behind the active workspace
beforeCwd_UserThird(s, p) ==
    << [result |-> detectVSCodeActiveWorkspaceAdvanced(s, p),
        method |-> "VS Code Active Workspace Detection", extra |-> TRUE],
       [result |-> detectActiveVSCodeWorkspace(s, p),
        method |-> "Active VS Code Workspace", extra |-> TRUE],
       [result |-> detectUserSpecifiedProject(s),
        method |-> "User Configuration", extra |-> TRUE],
       [result |-> detectPackageNameWithSource(s),
        method |-> "Package.json", extra |-> TRUE] >>

\* the strategies of detectProjectNameWithSource ahead of its read of the
\* current directory
beforeCwd(s, p) ==
    << [result |-> detectVSCodeActiveWorkspaceAdvanced(s, p),
        method |-> "VS Code Active Workspace Detection", extra |-> TRUE],
       [result |-> detectUserSpecifiedProject(s),
        method |-> "User Configuration", extra |-> TRUE],
       [result |-> detectActiveVSCodeWorkspace(s, p),
        method |-> "Active VS Code Workspace", extra |-> TRUE],
       [result |-> detectPackageNameWithSource(s),
        method |-> "Package.json", extra |-> TRUE] >>

\* the directory-name step on the current directory, once it has been read
directoryName(s) ==
    IF s.cwd.kind = "throws" THEN noName("directory")
    ELSE LET currentDir == s.cwd.path
             dirName    == basename(currentDir)
         IN  IF /\ isValidProjectName(dirName)
                /\ currentDir # HomeDir
                /\ ~isSystemOrVSCodePath(currentDir)
                /\ hasProjectIndicators(s, currentDir)
             THEN [name   |-> <<dirName>>,
                   source |-> [label |-> "directory", of |-> currentDir]]
             ELSE noName("directory")

\* a strategy of the cascade and its method
strategy(result, method) == [result |-> result, method |-> method, extra |-> TRUE]

\* a strategy whose result is also tested against the reserved names
strategyNotReserved(result, method) ==
    [result |-> result, method |-> method, extra |-> notReserved(result)]

\* the strategies of detectProjectNameWithSource from the directory name on
afterCwd(s, p) ==
    << strategy(directoryName(s), "Directory Name"),
       strategy(detectFromVSCodeConfig(s), "VS Code Config Search"),
       strategy(detectVSCodeWorkspaceFromParent(s), "VS Code NPX Context"),
       strategyNotReserved(detectVSCodeWorkspaceEnhanced(s),
                           "Enhanced VS Code Detection"),
       strategyNotReserved(detectVSCodeWorkspaceWithSource(s), "VS Code Workspace"),
       [result |-> detectProjectFromCommonPatterns(s),
        method |-> "Smart Pattern Detection",
        extra  |-> /\ s.cwd.kind = "dir"
                   /\ \/ s.cwd.path = HomeDir
                      \/ isSystemOrVSCodePath(s.cwd.path)],
       strategy(detectWorkspaceViaCommands(s, p), "Command Detection"),
       strategy(detectVSCodeWorkspaceFromSettings(s), "VS Code Recent Workspace"),
       strategy(detectActiveVSCodeWorkspace(s, p),
                "Active VS Code Workspace Detection") >>

\* the last return of detectProjectNameWithSource
fallback(dirName) ==
    [name   |-> sanitizeProjectName(IF Len(dirName) > 0 /\ isValidProjectName(dirName)
                                    THEN dirName ELSE UnknownProject),
     method |-> "Fallback",
     source |-> [label |-> "directory-basename-fallback", of |-> <<>>]]

\* the catch of detectProjectNameWithSource
ErrorFallback ==
    [name   |-> UnknownProject,
     method |-> "Error Fallback",
     source |-> [label |-> "error-recovery", of |-> <<>>]]

\* the identity found, or else otherwise
orElse(found, otherwise) == IF found # <<>> THEN found[1] ELSE otherwise

\* detectProjectNameWithSource: process.cwd() is read between the package
\* strategy and the directory-name step, inside the try of the cascade only
detectProjectNameWithSource(s, p) ==
    orElse(firstAccepted(beforeCwd(s, p)),
           IF s.cwd.kind = "throws" THEN ErrorFallback
           ELSE orElse(firstAccepted(afterCwd(s, p)),
                       fallback(basename(s.cwd.path))))

\* the git root found, or else the current directory
rootOr(root, cwd) == IF root.kind = "found" THEN root ELSE Found(cwd)

\* detectProjectPath: the directory that holds .git at or above the current
\* one, else the current directory; process.cwd() throws out of it
detectProjectPath(s) ==
    IF s.cwd.kind = "throws" THEN Thrown
    ELSE rootOr(gitRootFrom(s, s.cwd.path), s.cwd.path)

\* the value assigned to this.projectContext
contextOf(detectionResult, projectPath, clock) ==
    [name            |-> detectionResult.name,
     path            |-> projectPath.name,
     detectedAt      |-> clock,
     detectionMethod |-> detectionResult.method,
     detectionSource |-> detectionResult.source]

\* initializeProjectContext
initializeProjectContext(s, p, clock) ==
    contextOf(detectProjectNameWithSource(s, p), detectProjectPath(s), clock)

MemoryBankDir == <<"/", ".", "a", "d", "v", "a", "n", "c", "e", "d", "-", "m", "e", "m", "o", "r", "y", "-", "b", "a", "n", "k", "/">>

\* getMemoryDirectory
getMemoryDirectory(ctx) == HomeDir \o MemoryBankDir \o ctx.name

\* what is reported of an identity detected just now
infoOf(again, ctx, s) ==
    [projectName     |-> again.name,
     detectionMethod |-> again.method,
     detectionSource |-> again.source,
     projectPath     |-> IF Len(ctx.path) > 0 THEN ctx.path ELSE s.cwd.path,
     memoryDirectory |-> HomeDir \o MemoryBankDir \o again.name]

\* getProjectDetectionInfo, with the identity detected again at every call
getProjectDetectionInfo_Redetect(ctx, dir, s) ==
    infoOf(detectProjectNameWithSource(s, processes), ctx, s)

\* getProjectDetectionInfo
getProjectDetectionInfo(ctx, dir, s) ==
    [projectName     |-> IF Len(ctx.name) > 0 THEN ctx.name ELSE UnknownProject,
     detectionMethod |-> ctx.detectionMethod,
     detectionSource |-> ctx.detectionSource,
     projectPath     |-> IF Len(ctx.path) > 0 THEN ctx.path ELSE s.cwd.path,
     memoryDirectory |-> dir]

---------------------------------------------------------------------------
(* Where the two stores keep their files *)

\* the segments of a path between its / separators, the empty ones left out
RECURSIVE splitPath(_, _, _)
splitPath(p, cur, acc) ==
    IF Len(p) = 0 THEN (IF Len(cur) = 0 THEN acc ELSE Append(acc, cur))
    ELSE IF Head(p) = "/"
         THEN splitPath(Tail(p), <<>>, IF Len(cur) = 0 THEN acc ELSE Append(acc, cur))
         ELSE splitPath(Tail(p), Append(cur, Head(p)), acc)

\* the segments with . dropped and .. taking back the segment before it
RECURSIVE collapseSegments(_, _)
collapseSegments(segs, acc) ==
    IF Len(segs) = 0 THEN acc
    ELSE IF Head(segs) = <<".">> THEN collapseSegments(Tail(segs), acc)
    ELSE IF Head(segs) = <<".", ".">>
         THEN collapseSegments(Tail(segs),
                               IF Len(acc) = 0 THEN acc
                               ELSE SubSeq(acc, 1, Len(acc) - 1))
         ELSE collapseSegments(Tail(segs), Append(acc, Head(segs)))

RECURSIVE joinSegments(_)
joinSegments(segs) ==
    IF Len(segs) = 0 THEN <<>>
    ELSE <<"/">> \o Head(segs) \o joinSegments(Tail(segs))

\* path.normalize of an absolute path
normalize(p) ==
    IF Len(collapseSegments(splitPath(p, <<>>, <<>>), <<>>)) = 0 THEN <<"/">>
    ELSE joinSegments(collapseSegments(splitPath(p, <<>>, <<>>), <<>>))

\* path.join(a, b) with a absolute
pathJoin(a, b) == normalize(a \o <<"/">> \o b)

\* path.resolve(p): p when absolute, else p under the current directory
pathResolve(s, p) ==
    IF Len(p) > 0 /\ p[1] = "/" THEN normalize(p) ELSE pathJoin(s.cwd.path, p)

DefaultRootName == <<".", "a", "d", "v", "a", "n", "c", "e", "d", "-", "m", "e", "m", "o", "r", "y", "-", "b", "a", "n", "k">>

\* getMemoryRoot of the topic store: MEMORY_BANK_ROOT when it is set and not
\* empty, else .advanced-memory-bank under the home directory
getMemoryRoot(s) ==
    IF s.MEMORY_BANK_ROOT # Undefined /\ Len(s.MEMORY_BANK_ROOT[1]) > 0
    THEN pathResolve(s, s.MEMORY_BANK_ROOT[1])
    ELSE pathJoin(HomeDir, DefaultRootName)

\* a file as its directory and its name
fileAt(full) == [dir |-> dirname(full), name |-> basename(full)]

\* getProjectPath with the root: path.join(this.memoryRoot, `${projectName}.json`)
projectPathIn(memoryRoot, projectName) ==
    fileAt(pathJoin(memoryRoot, projectName \o JsonExt))

\* the file of a memory: path.join(this.memoryDir, `${id}.json`); ids hold no
\* separator
memoryPathIn(dir, id) == [dir |-> dir, name |-> id \o JsonExt]

---------------------------------------------------------------------------
(* Read operations: functions of the storage root *)

Null == [kind |-> "null"]

\* topics[topic] || null
getTopicMemory(fs, projectName, topic) ==
    LET v == getProp(loadProject(fs, projectName), topic)
    IN  IF truthy(v) THEN v ELSE Null

\* Object.keys(topics)
listTopics(fs, projectName) ==
    LET topics == loadProject(fs, projectName)
    IN  [i \in 1..Len(topics) |-> topics[i].name]

\* the names derived from the files of the root that end in .json (readdir
\* gives them in no particular order)
listProjects(fs) ==
    {removeFirst(f, JsonExt) : f \in {g \in DOMAIN fs : endsWith(g, JsonExt)}}

\* a number that is NaN is <<>>, any other number n is <<n>>
NaN == <<>>

RECURSIVE minTimestamp(_, _, _)
minTimestamp(topics, k, acc) ==
    IF k > Len(topics) THEN acc
    ELSE IF acc = NaN \/ topics[k].memory.timestamp = Undefined THEN NaN
         ELSE minTimestamp(topics, k + 1,
                           <<Min(acc[1], topics[k].memory.timestamp[1])>>)

RECURSIVE maxLastModified(_, _, _)
maxLastModified(topics, k, acc) ==
    IF k > Len(topics) THEN acc
    ELSE IF acc = NaN \/ topics[k].memory.lastModified = Undefined THEN NaN
         ELSE maxLastModified(topics, k + 1,
                              <<Max(acc[1], topics[k].memory.lastModified[1])>>)

RECURSIVE sumImportance(_, _, _)
sumImportance(topics, k, acc) ==
    IF k > Len(topics) THEN acc
    ELSE IF acc = NaN \/ topics[k].memory.importance = Undefined THEN NaN
         ELSE sumImportance(topics, k + 1,
                            <<acc[1] + topics[k].memory.importance[1]>>)

\* getProjectInfo: null when the file does not exist
getProjectInfo(fs, clock, projectName) ==
    IF ~existsSync(fs, getProjectPath(projectName)) THEN Null
    ELSE LET topics == loadProject(fs, projectName)
         IN  [kind            |-> "info",
              name            |-> projectName,
              createdAt       |-> minTimestamp(topics, 1, <<clock>>),
              lastModified    |-> maxLastModified(topics, 1, <<0>>),
              topicCount      |-> Len(topics),
              memoryCount     |-> Len(topics),
              totalImportance |-> sumImportance(topics, 1, <<0>>)]

---------------------------------------------------------------------------
(* Search *)

\* the score of one entry of the document for a lower-cased query
scoreOf(entry, queryLower) ==
    LET contentLower == toLowerCase(entry.memory.content[1])
        tags         == entry.memory.tags[1]
        tagsLower    == [i \in 1..Len(tags) |-> toLowerCase(tags[i])]
    IN  (IF includes(contentLower, queryLower) THEN 3 ELSE 0)
        + (IF \E i \in 1..Len(tagsLower) : includes(tagsLower[i], queryLower)
           THEN 2 ELSE 0)
        + (IF includes(toLowerCase(entry.name), queryLower) THEN 1 ELSE 0)

\* memory.content.toLowerCase() and memory.tags.map(...) throw a TypeError
\* on a record without content or without tags
scoringThrows(topics) ==
    \E i \in 1..Len(topics) :
        \/ topics[i].memory.content = Undefined
        \/ topics[i].memory.tags = Undefined

\* the entries with a positive score, in document order
RECURSIVE hitsFrom(_, _, _)
hitsFrom(topics, k, queryLower) ==
    IF k > Len(topics) THEN <<>>
    ELSE LET sc == scoreOf(topics[k], queryLower)
         IN  (IF sc > 0
              THEN <<[topic |-> topics[k].name, memory |-> topics[k].memory,
                      score |-> sc]>>
              ELSE <<>>) \o hitsFrom(topics, k + 1, queryLower)

\* b.score - a.score || b.memory.importance - a.memory.importance, where a
\* difference with undefined is NaN, which sort takes as 0
compare(a, b) ==
    IF b.score - a.score # 0 THEN b.score - a.score
    ELSE IF a.memory.importance = Undefined \/ b.memory.importance = Undefined
         THEN 0
         ELSE b.memory.importance[1] - a.memory.importance[1]

\* whether compare is a consistent comparator for the elements of s
consistent(s) ==
    \A i, j, k \in 1..Len(s) :
        /\ (compare(s[i], s[j]) = 0 /\ compare(s[j], s[k]) = 0)
               => compare(s[i], s[k]) = 0
        /\ (compare(s[i], s[j]) < 0 /\ compare(s[j], s[k]) < 0)
               => compare(s[i], s[k]) < 0
        /\ (compare(s[i], s[j]) > 0 /\ compare(s[j], s[k]) > 0)
               => compare(s[i], s[k]) > 0

\* x put behind every element of the sorted s that does not come after it
RECURSIVE insertSorted(_, _)
insertSorted(s, x) ==
    IF Len(s) = 0 THEN <<x>>
    ELSE IF compare(s[Len(s)], x) <= 0
         THEN Append(s, x)
         ELSE Append(insertSorted(SubSeq(s, 1, Len(s) - 1), x), s[Len(s)])

\* a stable sort of s by compare
RECURSIVE sortFrom(_, _, _)
sortFrom(s, k, acc) ==
    IF k > Len(s) THEN acc ELSE sortFrom(s, k + 1, insertSorted(acc, s[k]))

permutations(s) ==
    {[i \in 1..Len(s) |-> s[f[i]]] :
        f \in {g \in [1..Len(s) -> 1..Len(s)] :
                  \A i, j \in 1..Len(s) : g[i] = g[j] => i = j}}

\* Array.prototype.sort: stable for a consistent comparator, any order the
\* implementation likes for an inconsistent one
sortOutcomes(s) ==
    IF consistent(s) THEN {sortFrom(s, 1, <<>>)} ELSE permutations(s)

\* Array.prototype.slice(0, end)
slice0(s, end) ==
    LET e == IF end < 0 THEN Max(Len(s) + end, 0) ELSE Min(end, Len(s))
    IN  SubSeq(s, 1, e)

\* searchTopicMemories: the outcomes the call can have
searchTopicMemories(fs, projectName, query, limit) ==
    LET topics == loadProject(fs, projectName)
    IN  IF scoringThrows(topics)
        THEN {[threw |-> TRUE, results |-> <<>>]}
        ELSE {[threw |-> FALSE, results |-> slice0(r, limit)] :
                 r \in sortOutcomes(hitsFrom(topics, 1, toLowerCase(query)))}

---------------------------------------------------------------------------
(* Inputs *)

Cpf     == <<"C", "P", "F">>
Misc    == <<"o", "u", "t">>
TagCpf  == <<"c", "p", "f">>
TagShop == <<"c", "o">>

Payloads ==
    { [content |-> Cpf,  tags |-> <<TagShop>>,         importance |-> 0],
      [content |-> Cpf,  tags |-> <<TagCpf, TagShop>>, importance |-> 15],
      [content |-> Misc, tags |-> <<>>,                importance |-> 7] }

NoPatch == [f \in {} |-> 0]

Patches ==
    { NoPatch,
      [content |-> Misc],
      [importance |-> 15],
      [tags |-> <<TagCpf>>, importance |-> 0] }

---------------------------------------------------------------------------
(* The state machine *)

\* a slot that holds no operation
Idle == [pc |-> "idle"]

Init ==
    /\ files = [f \in {} |-> <<>>]
    /\ now = 1
    /\ steps = 0
    /\ last = [op |-> "none"]
    /\ disk = [i \in {} |-> <<>>]
    /\ cache = <<>>
    /\ snap = EmptySnapshot
    /\ processes = NoCandidate
    /\ projectContext = initializeProjectContext(EmptySnapshot, NoCandidate, 1)
    /\ memoryDir = getMemoryDirectory(projectContext)
    /\ inflight = <<Idle, Idle>>
    /\ torn = [f \in {} |-> 0]

\* time passes between operations
Tick ==
    /\ now < MaxClock
    /\ now' = now + 1
    /\ UNCHANGED <<pending, identity, files, steps, last, disk, cache>>

Store ==
    \E p \in Projects, t \in TopicNames, a \in Payloads :
        /\ steps < MaxSteps
        /\ files' = storeTopicMemory(files, now, p, t, a.content, a.tags, a.importance)
        /\ last' = [op |-> "store", project |-> p, topic |-> t, args |-> a,
                    threw |-> FALSE]
        /\ steps' = steps + 1
        /\ UNCHANGED <<pending, identity, now, disk, cache>>

Update ==
    \E p \in Projects, t \in TopicNames, a \in Patches :
        LET r == updateTopicMemory(files, now, p, t, a)
        IN  /\ steps < MaxSteps
            /\ files' = r.files
            /\ last' = [op |-> "update", project |-> p, topic |-> t, args |-> a,
                        threw |-> r.threw]
            /\ steps' = steps + 1
            /\ UNCHANGED <<pending, identity, now, disk, cache>>

Delete ==
    \E p \in Projects, t \in TopicNames :
        /\ steps < MaxSteps
        /\ files' = deleteTopicMemory(files, p, t)
        /\ last' = [op |-> "delete", project |-> p, topic |-> t, args |-> NoPatch,
                    threw |-> FALSE]
        /\ steps' = steps + 1
        /\ UNCHANGED <<pending, identity, now, disk, cache>>

Reset ==
    \E p \in Projects :
        /\ steps < MaxSteps
        /\ files' = resetProject(files, p)
        /\ last' = [op |-> "reset", project |-> p, topic |-> <<>>, args |-> NoPatch,
                    threw |-> FALSE]
        /\ steps' = steps + 1
        /\ UNCHANGED <<pending, identity, now, disk, cache>>

InitializeFixedTopics ==
    \E p \in Projects :
        /\ steps < MaxSteps
        /\ files' = initializeFixedTopics(files, now, p)
        /\ last' = [op |-> "initialize", project |-> p, topic |-> <<>>, args |-> NoPatch,
                    threw |-> FALSE]
        /\ steps' = steps + 1
        /\ UNCHANGED <<pending, identity, now, disk, cache>>

Randoms == {1, 2}

\* an id that storeMemory never gave out
NoSuchId == generateMemoryId(0, 1)

\* the ids handed to getMemory, updateMemory and deleteMemory: every id that
\* is on disk or in the cache, and one that is in neither
MemoryIds == DOMAIN disk \cup {cache[i].key : i \in 1..Len(cache)} \cup {NoSuchId}

\* the ages handed to cleanupOldMemories
MaxAges == {0, 1}

\* the arguments handed to searchMemories
MemQueries == {<<"c", "p", "f">>, <<"O">>}
TagArgs    == {Undefined, << <<>> >>, << <<TagShop>> >>}
MemLimits  == {1, 10}

\* time passes between operations of the memory store
MemTick ==
    /\ now < MemMaxClock
    /\ now' = now + 1
    /\ UNCHANGED <<pending, identity, files, steps, last, disk, cache>>

\* what cache.get(id) meets: no entry, an entry past its lifetime, a live one
lookupOf(c, clock, id) ==
    IF ~cacheHas(c, id) THEN "miss"
    ELSE IF clock - c[cacheIndex(c, id)].start > CacheTtl THEN "stale" ELSE "hit"

StoreMemory ==
    \E a \in Payloads, r \in Randoms :
        LET o == storeMemory(disk, cache, now, r, a.content, a.tags, a.importance)
        IN  /\ steps < MemMaxSteps
            /\ disk' = o.disk
            /\ cache' = o.cache
            /\ last' = [op |-> "storeMemory", id |-> o.memory[1].id[1], args |-> a,
                        result |-> TRUE, memory |-> o.memory]
            /\ steps' = steps + 1
            /\ UNCHANGED <<pending, identity, now, files>>

GetMemory ==
    \E id \in MemoryIds :
        LET o == getMemory(disk, cache, now, id)
        IN  /\ steps < MemMaxSteps
            /\ disk' = o.disk
            /\ cache' = o.cache
            /\ last' = [op |-> "getMemory", id |-> id, args |-> NoPatch,
                        result |-> o.memory # Undefined, memory |-> o.memory,
                        lookup |-> lookupOf(cache, now, id)]
            /\ steps' = steps + 1
            /\ UNCHANGED <<pending, identity, now, files>>

UpdateMemory ==
    \E id \in MemoryIds, a \in Patches :
        LET o == updateMemory(disk, cache, now, id, a)
        IN  /\ steps < MemMaxSteps
            /\ disk' = o.disk
            /\ cache' = o.cache
            /\ last' = [op |-> "updateMemory", id |-> id, args |-> a,
                        result |-> o.result, lookup |-> lookupOf(cache, now, id)]
            /\ steps' = steps + 1
            /\ UNCHANGED <<pending, identity, now, files>>

DeleteMemory ==
    \E id \in MemoryIds :
        LET o == deleteMemory(disk, cache, id, FALSE)
        IN  /\ steps < MemMaxSteps
            /\ disk' = o.disk
            /\ cache' = o.cache
            /\ last' = [op |-> "deleteMemory", id |-> id, args |-> NoPatch,
                        result |-> o.result, unlinkThrew |-> FALSE]
            /\ steps' = steps + 1
            /\ UNCHANGED <<pending, identity, now, files>>

\* deleteMemory of a file that fs.unlink fails to remove
DeleteMemoryFails ==
    \E id \in DOMAIN disk :
        LET o == deleteMemory(disk, cache, id, TRUE)
        IN  /\ steps < MemMaxSteps
            /\ disk' = o.disk
            /\ cache' = o.cache
            /\ last' = [op |-> "deleteMemory", id |-> id, args |-> NoPatch,
                        result |-> o.result, unlinkThrew |-> TRUE]
            /\ steps' = steps + 1
            /\ UNCHANGED <<pending, identity, now, files>>

CleanupOldMemories ==
    \E maxAge \in MaxAges, order \in readdir(disk) :
        LET o == cleanupOldMemories(disk, cache, now, maxAge, order)
        IN  /\ steps < MemMaxSteps
            /\ disk' = o.disk
            /\ cache' = o.cache
            /\ last' = [op |-> "cleanupOldMemories", maxAge |-> maxAge,
                        result |-> o.result]
            /\ steps' = steps + 1
            /\ UNCHANGED <<pending, identity, now, files>>

SearchMemories ==
    \E query \in MemQueries, tags \in TagArgs, limit \in MemLimits,
       order \in readdir(disk) :
        /\ steps < MemMaxSteps
        /\ last' = [op |-> "searchMemories", query |-> query, tags |-> tags,
                    limit |-> limit,
                    result |-> searchMemories(disk, order, query, tags, limit)]
        /\ steps' = steps + 1
        /\ UNCHANGED <<pending, identity, now, files, disk, cache>>

Next ==
    \/ Tick
    \/ Store
    \/ Update
    \/ Delete
    \/ Reset
    \/ InitializeFixedTopics

\* the topic store
Spec == Init /\ [][Next]_vars

MemNext ==
    \/ MemTick
    \/ StoreMemory
    \/ GetMemory
    \/ UpdateMemory
    \/ DeleteMemory
    \/ CleanupOldMemories
    \/ SearchMemories

\* the memory store, without I/O failures
MemSpec == Init /\ [][MemNext]_vars

MemIONext ==
    \/ MemTick
    \/ StoreMemory
    \/ GetMemory
    \/ UpdateMemory
    \/ DeleteMemory
    \/ DeleteMemoryFails

\* the memory store, where the removal of a file can fail
MemIOSpec == Init /\ [][MemIONext]_vars


---------------------------------------------------------------------------
(* What the claims speak of *)

\* an integer clamped into [1,10]
ClampedInto1to10(n) == IF n < 1 THEN 1 ELSE IF n > 10 THEN 10 ELSE n

\* the persisted document of a project: <<>> when there is no file
DocumentOf(fs, p) ==
    IF getProjectPath(p) \in DOMAIN fs THEN fs[getProjectPath(p)] ELSE <<>>

\* t is a key of the persisted document of p
IsKey(fs, p, t) == \E i \in 1..Len(DocumentOf(fs, p)) : DocumentOf(fs, p)[i].name = t

\* the persisted record of the key t
RecordOf(fs, p, t) ==
    DocumentOf(fs, p)[CHOOSE i \in 1..Len(DocumentOf(fs, p)) :
                          DocumentOf(fs, p)[i].name = t].memory

\* the entries of the persisted document of p other than t
OthersOf(fs, p, t) == SelectSeq(DocumentOf(fs, p), LAMBDA e : e.name # t)

---------------------------------------------------------------------------
(* The environment, detection and the construction of the manager *)

\* the number of parts of the environment that differ from EmptySnapshot
Changed(s) == Cardinality({f \in DOMAIN EmptySnapshot : s[f] # EmptySnapshot[f]})

\* one part of the environment is set to one of the values in alternatives,
\* or cleared
ArrangeIn(alternatives) ==
    \E f \in DOMAIN alternatives :
        \E v \in alternatives[f] \cup {EmptySnapshot[f]} :
            /\ v # snap[f]
            /\ Changed([snap EXCEPT ![f] = v]) <= MaxArrange
            /\ snap' = [snap EXCEPT ![f] = v]
            /\ UNCHANGED <<pending, files, now, steps, last, disk, cache, processes,
                           projectContext, memoryDir>>

\* the environment is arranged ahead of the first run of detection
Arrange == steps = 0 /\ ArrangeIn(Alternatives)

\* the parts of the environment that change while a manager is in use
IdentityAlternatives ==
    [ win32            |-> {TRUE},
      MCP_PROJECT_NAME |-> {<<NotesName>>},
      cwd              |-> {[kind |-> "throws", path |-> <<>>]} ]

ArrangeIdentity == ArrangeIn(IdentityAlternatives)

\* the editor's processes change; their report is read on win32 only
ProcessesChange ==
    /\ snap.win32
    /\ \E p \in ProcessOutcomes \ {processes} : processes' = p
    /\ UNCHANGED <<pending, files, now, steps, last, disk, cache, snap, projectContext,
                   memoryDir>>

\* one run of detection on the environment as it is, among at most bound
\* operations
DetectWithin(bound) ==
    /\ steps < bound
    /\ last' = [op |-> "detect", snap |-> snap, processes |-> processes,
                result |-> detectProjectNameWithSource(snap, processes)]
    /\ steps' = steps + 1
    /\ UNCHANGED <<pending, identity, files, now, disk, cache>>

Detect == DetectWithin(MaxDetects)

DetectNext ==
    \/ Arrange
    \/ ProcessesChange
    \/ Detect

\* detection on every environment within MaxArrange changes of the empty one
DetectSpec == Init /\ [][DetectNext]_vars

\* a process starts and constructs its manager: constructor; the constructor
\* throws when the current directory cannot be read. The content of the
\* directories of other projects is not followed
Construct ==
    /\ steps < IdMaxSteps
    /\ steps' = steps + 1
    /\ IF snap.cwd.kind = "throws"
       THEN /\ last' = [op |-> "constructor", threw |-> TRUE]
            /\ UNCHANGED <<pending, identity, files, now, disk, cache>>
       ELSE /\ projectContext' = initializeProjectContext(snap, processes, now)
            /\ memoryDir' = getMemoryDirectory(projectContext')
            /\ cache' = <<>>
            /\ disk' = IF memoryDir' = memoryDir THEN disk ELSE [i \in {} |-> <<>>]
            /\ last' = [op |-> "constructor", threw |-> FALSE]
            /\ UNCHANGED <<pending, files, now, snap, processes>>

IdDetect          == DetectWithin(IdMaxSteps)
IdStoreMemory     == steps < IdMaxSteps /\ StoreMemory
IdGetMemory       == steps < IdMaxSteps /\ GetMemory
IdUpdateMemory    == steps < IdMaxSteps /\ UpdateMemory
IdDeleteMemory    == steps < IdMaxSteps /\ DeleteMemory
IdCleanup         == steps < IdMaxSteps /\ CleanupOldMemories
IdSearchMemories  == steps < IdMaxSteps /\ SearchMemories

IdentityNext ==
    \/ ArrangeIdentity
    \/ ProcessesChange
    \/ Construct
    \/ IdDetect
    \/ IdStoreMemory
    \/ IdGetMemory
    \/ IdUpdateMemory
    \/ IdDeleteMemory
    \/ IdCleanup
    \/ IdSearchMemories

\* a manager in use while its environment changes
IdentitySpec == Init /\ [][IdentityNext]_vars

\* the names put to validation: the entries of invalidNames as they are
\* written, in lower case, in upper case and capitalized, names of fewer than
\* two characters, names around a forbidden pattern, and names of projects
ValidationNames ==
    {invalidNames[i] : i \in 1..Len(invalidNames)}
        \cup {toLowerCase(invalidNames[i]) : i \in 1..Len(invalidNames)}
        \cup {toUpperCase(invalidNames[i]) : i \in 1..Len(invalidNames)}
        \cup {capitalize(invalidNames[i]) : i \in 1..Len(invalidNames)}
        \cup {<<>>, <<"a">>, <<"Z">>, <<"7">>, <<"-">>}
        \cup {<<"m", "y", "-", "c", "a", "c", "h", "e">>, <<"U", "s", "e", "r", "D", "a", "t", "a">>, <<"c", "a", "t", "a", "l", "o", "g">>, <<"B", "l", "o", "g">>, <<"s", "y", "s", "-", "a", "d", "m", "i", "n">>}
        \cup {ApiName, NotesName, MyAppName, WebName, <<"a", "b">>}

\* one call of isValidProjectName
IsValidProjectName ==
    \E name \in ValidationNames :
        /\ steps < MaxSteps
        /\ last' = [op |-> "isValidProjectName", name |-> name,
                    result |-> isValidProjectName(name)]
        /\ steps' = steps + 1
        /\ UNCHANGED <<pending, identity, files, now, disk, cache>>

ValidateNext ==
    \/ IsValidProjectName

\* validation of names
ValidateSpec == Init /\ [][ValidateNext]_vars

\* a run of n letters
Pad(n) == [i \in 1..n |-> "a"]

\* what follows the run of letters in a name put to sanitizeProjectName
SanitizeTails ==
    {<<>>, <<"-">>, <<"-", "b">>, <<"-", "-", "B">>, <<"_">>, <<"_", "-">>,
     <<" ", "Z", "9">>, <<".", "/", "@">>, <<"b", "c">>}

\* the names put to sanitizeProjectName: of lengths below, at and above 50,
\* with characters inside and outside [a-z0-9-_]
SanitizeInputs ==
    {Pad(n) \o t : n \in {0, 1, 47, 48, 49, 50, 51}, t \in SanitizeTails}
        \cup {<<"-", "-">>, <<"-", "A", "-">>, <<"M", "y", " ", "A", "p", "p">>,
              ScopedName, UnknownProject}

\* one call of sanitizeProjectName; it reads nothing of the environment and
\* is called here in the environment of Init
SanitizeProjectName ==
    \E name \in SanitizeInputs :
        /\ steps < MaxSteps
        /\ Changed(snap) = 0
        /\ last' = [op |-> "sanitizeProjectName", name |-> name,
                    result |-> sanitizeProjectName(name)]
        /\ steps' = steps + 1
        /\ UNCHANGED <<pending, identity, files, now, disk, cache>>

NameNext ==
    \/ Arrange
    \/ ProcessesChange
    \/ Detect
    \/ SanitizeProjectName

\* the names of identities: the sanitizer on its own and inside detection
NameSpec == Init /\ [][NameNext]_vars

(* The two stores under a storage root *)

DataDir == <<"/", "d", "a", "t", "a">>
BankDir == <<"/", "s", "r", "v", "/", "b", "a", "n", "k">>

\* the project names handed to the topic store: the tool hands on the
\* projectName of the request as it is
RootProjects == {Shop, NotesName, <<".", ".", "/", "x">>}

\* MEMORY_BANK_ROOT is set ahead of the start of the process, in which both
\* managers are constructed
ArrangeRoot ==
    /\ steps = 0
    /\ ArrangeIn([MEMORY_BANK_ROOT |-> {<<DataDir>>, <<BankDir>>}])

RootStore ==
    \E p \in RootProjects, a \in Payloads :
        /\ steps < MaxSteps
        /\ files' = storeTopicMemory(files, now, p, Bugs, a.content, a.tags, a.importance)
        /\ last' = [op |-> "store", store |-> "topic", project |-> p, args |-> a,
                    file |-> projectPathIn(getMemoryRoot(snap), p)]
        /\ steps' = steps + 1
        /\ UNCHANGED <<pending, identity, now, disk, cache>>

RootGet ==
    \E p \in RootProjects :
        /\ steps < MaxSteps
        /\ last' = [op |-> "get", store |-> "topic", project |-> p,
                    result |-> getTopicMemory(files, p, Bugs),
                    file |-> projectPathIn(getMemoryRoot(snap), p)]
        /\ steps' = steps + 1
        /\ UNCHANGED <<pending, identity, files, now, disk, cache>>

RootStoreMemory ==
    \E a \in Payloads, r \in Randoms :
        /\ steps < MaxSteps
        /\ disk' = storeMemory(disk, cache, now, r, a.content, a.tags, a.importance).disk
        /\ cache' = storeMemory(disk, cache, now, r, a.content, a.tags, a.importance).cache
        /\ last' = [op |-> "storeMemory", store |-> "memory", args |-> a,
                    id |-> generateMemoryId(now, r),
                    file |-> memoryPathIn(memoryDir, generateMemoryId(now, r))]
        /\ steps' = steps + 1
        /\ UNCHANGED <<pending, identity, now, files>>

RootGetMemory ==
    \E id \in MemoryIds :
        /\ steps < MaxSteps
        /\ disk' = getMemory(disk, cache, now, id).disk
        /\ cache' = getMemory(disk, cache, now, id).cache
        /\ last' = [op |-> "getMemory", store |-> "memory", id |-> id,
                    result |-> getMemory(disk, cache, now, id).memory,
                    file |-> memoryPathIn(memoryDir, id)]
        /\ steps' = steps + 1
        /\ UNCHANGED <<pending, identity, now, files>>

RootNext ==
    \/ ArrangeRoot
    \/ Tick
    \/ RootStore
    \/ RootGet
    \/ RootStoreMemory
    \/ RootGetMemory

\* both stores in a process started with or without MEMORY_BANK_ROOT
RootSpec == Init /\ [][RootNext]_vars

(* Mutations of the topic store in flight at the same time *)

\* the mutations that are started, all on the project Shop
ConcOps ==
    { [op |-> "store",  topic |-> Bugs, args |-> [content |-> Cpf, tags |-> <<TagShop>>, importance |-> 0]],
      [op |-> "store",  topic |-> Todo, args |-> [content |-> Misc, tags |-> <<>>, importance |-> 7]],
      [op |-> "update", topic |-> Bugs, args |-> [content |-> Misc]],
      [op |-> "delete", topic |-> Bugs, args |-> NoPatch],
      [op |-> "initializeFixedTopics", topic |-> Summary, args |-> NoPatch] }

\* the slots for operations in flight
Slots == {1, 2}

inFlight(x) == x.pc \notin {"idle", "done"}

\* the file of the project as it is: whether it holds a whole document, and
\* the document
contentOf(fs, tn, path) ==
    [whole |-> path \notin DOMAIN tn,
     doc   |-> IF path \in DOMAIN fs /\ path \notin DOMAIN tn THEN fs[path] ELSE <<>>]

\* the number of writes completed so far among the operations in the slots
completed(fl) ==
    Max(IF fl[1].pc = "idle" THEN 0 ELSE fl[1].finished,
        IF fl[2].pc = "idle" THEN 0 ELSE fl[2].finished)

\* a mutation is called: it runs up to the await of its fs.readFile, or, when
\* existsSync finds no file, up to the await of loadProject with {}
Begin(i) ==
    \E o \in ConcOps :
        /\ steps < MaxConcOps
        /\ ~inFlight(inflight[i])
        /\ steps' = steps + 1
        /\ inflight' =
             [k \in Slots |->
                IF k = i
                THEN [pc       |-> IF existsSync(files, getProjectPath(Shop))
                                   THEN "reading" ELSE "loaded",
                      o        |-> o,
                      observed |-> IF existsSync(files, getProjectPath(Shop))
                                   THEN "none" ELSE "missing",
                      topics   |-> <<>>,
                      before   |-> contentOf(files, torn, getProjectPath(Shop)),
                      solo     |-> \A j \in Slots \ {i} : ~inFlight(inflight[j]),
                      doc      |-> <<>>,
                      wrote    |-> FALSE,
                      threw    |-> FALSE,
                      after    |-> contentOf(files, torn, getProjectPath(Shop)),
                      finished |-> 0]
                ELSE IF inFlight(inflight[k])
                     THEN [inflight[k] EXCEPT !.solo = FALSE]
                     ELSE inflight[k]]
        /\ UNCHANGED <<identity, files, now, last, disk, cache, torn>>

\* fs.readFile and JSON.parse of loadProject complete, or throw into its catch
Read(i) ==
    \E readThrows \in BOOLEAN :
        /\ inflight[i].pc = "reading"
        /\ inflight' =
             [inflight EXCEPT
                ![i].pc = "loaded",
                ![i].observed = observedAt(files, torn, getProjectPath(Shop), readThrows),
                ![i].topics = readProject(files, torn, Shop, readThrows)]
        /\ UNCHANGED <<identity, files, now, steps, last, disk, cache, torn>>

\* the mutation changes the topics it loaded and calls saveProject, whose
\* fs.writeFile opens the file; or it returns or throws without a write
Open(i) ==
    /\ inflight[i].pc = "loaded"
    /\ IF mutated(inflight[i].o, inflight[i].topics, now).writes
       THEN /\ inflight' =
                 [inflight EXCEPT
                    ![i].pc = "opened",
                    ![i].doc = JSONStringify(
                                  mutated(inflight[i].o, inflight[i].topics, now).topics)]
            /\ files' = openTruncate(files, torn, getProjectPath(Shop)).files
            /\ torn' = openTruncate(files, torn, getProjectPath(Shop)).torn
       ELSE /\ inflight' =
                 [inflight EXCEPT
                    ![i].pc = "done",
                    ![i].threw = mutated(inflight[i].o, inflight[i].topics, now).threw,
                    ![i].after = contentOf(files, torn, getProjectPath(Shop))]
            /\ UNCHANGED <<files, torn>>
    /\ UNCHANGED <<identity, now, steps, last, disk, cache>>

\* fs.writeFile writes the text and the mutation returns
Write(i) ==
    /\ inflight[i].pc = "opened"
    /\ files' = writeAtStart(files, torn, getProjectPath(Shop), inflight[i].doc).files
    /\ torn' = writeAtStart(files, torn, getProjectPath(Shop), inflight[i].doc).torn
    /\ inflight' =
         [inflight EXCEPT
            ![i].pc = "done",
            ![i].wrote = TRUE,
            ![i].after = contentOf(files', torn', getProjectPath(Shop)),
            ![i].finished = completed(inflight) + 1]
    /\ UNCHANGED <<identity, now, steps, last, disk, cache>>

ConcTick ==
    /\ now < MaxClock
    /\ now' = now + 1
    /\ UNCHANGED <<pending, identity, files, steps, last, disk, cache>>

ConcNext ==
    \/ ConcTick
    \/ \E i \in Slots : Begin(i)
    \/ \E i \in Slots : Read(i)
    \/ \E i \in Slots : Open(i)
    \/ \E i \in Slots : Write(i)

\* mutations of one project document, interleaved at their reads and writes
ConcSpec == Init /\ [][ConcNext]_vars

(* The walk over marker files *)

DeepDir == <<"/", "a", "/", "b", "/", "c", "/", "d", "/", "e", "/", "f", "/", "g">>

\* the n-th parent of directory d, the root when d has fewer
RECURSIVE parentOf(_, _)
parentOf(d, n) == IF n = 0 THEN d ELSE parentOf(dirname(d), n - 1)

\* DeepDir and the directories above it, up to the root
WalkDirs == {parentOf(DeepDir, n) : n \in 0..7}

\* the marker files: one with a name, at any level; a nearer one with another
\* name, with a name that is not valid, or that cannot be read
WalkMarkers ==
    {[d \in {a} |-> Found(MarkerText)] : a \in WalkDirs}
        \cup {[d \in {parentOf(DeepDir, n), parentOf(DeepDir, n + 2)} |->
                  IF d = parentOf(DeepDir, n) THEN near ELSE Found(MarkerText)] :
                      n \in {0, 3, 4}, near \in {Found(WebName), Found(SrcName), Thrown}}

\* the current directory and the marker files are arranged
ArrangeWalk ==
    /\ steps = 0
    /\ ArrangeIn([cwd     |-> {[kind |-> "dir", path |-> d] : d \in WalkDirs},
                  markers |-> WalkMarkers])

\* one call of detectUserSpecifiedProject
DetectUserSpecifiedProject ==
    /\ steps < MaxDetects
    /\ last' = [op |-> "detectUserSpecifiedProject", snap |-> snap,
                result |-> detectUserSpecifiedProject(snap)]
    /\ steps' = steps + 1
    /\ UNCHANGED <<pending, identity, files, now, disk, cache>>

WalkNext ==
    \/ ArrangeWalk
    \/ DetectUserSpecifiedProject

\* the user's configuration, read from marker files at and above the
\* current directory
WalkSpec == Init /\ [][WalkNext]_vars

(* Requests to the tools *)

\* the store-topic-memory requests: tags and importance are optional
StoreRequests ==
    [projectName : {Shop},
     topic       : {Bugs, Todo},
     content     : {Cpf, Misc},
     tags        : {Undefined, << <<>> >>, << <<TagShop>> >>},
     importance  : {Undefined} \cup {<<n>> : n \in {-3, 0, 1, 7, 10, 15}}]

\* one store-topic-memory request is handled
CallStoreTopicMemory ==
    \E args \in StoreRequests :
        /\ steps < MaxSteps
        /\ files' = callStoreTopicMemory(files, now, args)
        /\ last' = [op |-> "store-topic-memory", args |-> args]
        /\ steps' = steps + 1
        /\ UNCHANGED <<pending, identity, now, disk, cache>>

ToolNext ==
    \/ Tick
    \/ CallStoreTopicMemory

\* requests to the store tool of the server
ToolSpec == Init /\ [][ToolNext]_vars

(* Operations of the memory store in flight at the same time.  One       *)
(* storeMemory or updateMemory is in flight at a time; a file that is      *)
(* unlinked while a write has it open is gone when the write completes.    *)

\* the operations that are started
FlightOps ==
    {[op |-> "storeMemory", id |-> generateMemoryId(now, r), args |-> a] :
         r \in {1}, a \in {[content |-> Cpf, tags |-> <<TagShop>>, importance |-> 7]}}
        \cup {[op |-> "getMemory", id |-> id, args |-> NoPatch] : id \in MemoryIds}
        \cup {[op |-> "updateMemory", id |-> id, args |-> [content |-> Misc]] :
                 id \in MemoryIds}
        \cup {[op |-> "deleteMemory", id |-> id, args |-> NoPatch] : id \in MemoryIds}

writes(x) == inFlight(x) /\ x.o.op \in {"storeMemory", "updateMemory"}

\* the store as an operation finds or leaves it
storeOf(c, dk, tn) == [cache |-> c, disk |-> dk, torn |-> tn]

\* the slot i with an operation that has just been called
called(i, o, pc, memory, result) ==
    [k \in Slots |->
        IF k = i
        THEN [pc |-> pc, o |-> o, memory |-> memory, result |-> result,
              threw |-> FALSE, detached |-> FALSE,
              before |-> storeOf(cache, disk, torn),
              solo |-> \A j \in Slots \ {i} : ~inFlight(inflight[j])]
        ELSE IF inFlight(inflight[k])
             THEN [inflight[k] EXCEPT !.solo = FALSE]
             ELSE inflight[k]]

\* storeMemory up to the await of its persistMemory
BeginStore(i, o) ==
    /\ o.op = "storeMemory"
    /\ cache' = cacheSet(cache, now, o.id, newMemory(now, 1, o.args))
    /\ inflight' = called(i, o, "persisting", <<newMemory(now, 1, o.args)>>, Undefined)

\* getMemory and updateMemory up to their first await: a cached memory is
\* returned, or updated up to the await of persistMemory; else the file is
\* read when it exists
BeginGetOrUpdate(i, o) ==
    /\ o.op \in {"getMemory", "updateMemory"}
    /\ IF cacheGet(cache, now, o.id).value # Undefined
       THEN IF o.op = "getMemory"
            THEN /\ cache' = cacheGet(cache, now, o.id).cache
                 /\ inflight' = called(i, o, "done", cacheGet(cache, now, o.id).value,
                                       <<TRUE>>)
            ELSE /\ cache' = cacheSet(cacheGet(cache, now, o.id).cache, now, o.id,
                                      patched(cacheGet(cache, now, o.id).value[1], o.args))
                 /\ inflight' = called(i, o, "persisting",
                                       <<patched(cacheGet(cache, now, o.id).value[1], o.args)>>,
                                       Undefined)
       ELSE /\ cache' = cacheGet(cache, now, o.id).cache
            /\ inflight' = IF o.id \in DOMAIN disk
                           THEN called(i, o, "reading", Undefined, Undefined)
                           ELSE called(i, o, "done", Undefined, <<FALSE>>)

\* deleteMemory up to the await of its fs.unlink
BeginDelete(i, o) ==
    /\ o.op = "deleteMemory"
    /\ cache' = cacheDelete(cache, o.id)
    /\ inflight' = IF o.id \in DOMAIN disk
                   THEN called(i, o, "unlinking", Undefined, Undefined)
                   ELSE called(i, o, "done", Undefined, <<TRUE>>)

\* an operation of the memory store is called
MemBegin(i) ==
    \E o \in FlightOps :
        /\ steps < MaxFlightOps
        /\ ~inFlight(inflight[i])
        /\ o.op \in {"storeMemory", "updateMemory"}
              => \A j \in Slots : ~writes(inflight[j])
        /\ steps' = steps + 1
        /\ BeginStore(i, o) \/ BeginGetOrUpdate(i, o) \/ BeginDelete(i, o)
        /\ UNCHANGED <<identity, files, now, last, disk, torn>>

\* fs.readFile and JSON.parse of getMemory complete: the memory enters the
\* cache, and updateMemory goes on to the await of its persistMemory; a file
\* that is gone or does not parse gives null
MemRead(i) ==
    /\ inflight[i].pc = "reading"
    /\ IF ~readable(disk, torn, inflight[i].o.id)
       THEN /\ inflight' = [inflight EXCEPT ![i].pc = "done", ![i].result = <<FALSE>>]
            /\ UNCHANGED cache
       ELSE IF inflight[i].o.op = "getMemory"
       THEN /\ cache' = cacheSet(cache, now, inflight[i].o.id,
                                 parseMemory(disk[inflight[i].o.id]))
            /\ inflight' = [inflight EXCEPT
                               ![i].pc = "done",
                               ![i].memory = <<parseMemory(disk[inflight[i].o.id])>>,
                               ![i].result = <<TRUE>>]
       ELSE /\ cache' = cacheSet(cache, now, inflight[i].o.id,
                                 patched(parseMemory(disk[inflight[i].o.id]),
                                         inflight[i].o.args))
            /\ inflight' = [inflight EXCEPT
                               ![i].pc = "persisting",
                               ![i].memory = <<patched(parseMemory(disk[inflight[i].o.id]),
                                                       inflight[i].o.args)>>]
    /\ UNCHANGED <<identity, files, now, steps, last, disk, torn>>

\* fs.writeFile of persistMemory opens the file, or fails, and the operation
\* throws
MemOpen(i) ==
    \E fails \in BOOLEAN :
        /\ inflight[i].pc = "persisting"
        /\ IF fails
           THEN /\ inflight' = [inflight EXCEPT ![i].pc = "done", ![i].threw = TRUE]
                /\ UNCHANGED <<disk, torn>>
           ELSE /\ inflight' = [inflight EXCEPT ![i].pc = "opened"]
                /\ disk' = openMemoryFile(disk, torn, inflight[i].o.id).disk
                /\ torn' = openMemoryFile(disk, torn, inflight[i].o.id).torn
        /\ UNCHANGED <<identity, files, now, steps, last, cache>>

\* fs.writeFile of persistMemory writes the text and the operation returns
MemWrite(i) ==
    /\ inflight[i].pc = "opened"
    /\ inflight' = [inflight EXCEPT ![i].pc = "done", ![i].result = <<TRUE>>]
    /\ IF inflight[i].detached
       THEN UNCHANGED <<disk, torn>>
       ELSE /\ disk' = persistMemory(disk, inflight[i].memory[1])
            /\ torn' = [k \in DOMAIN torn \ {inflight[i].o.id} |-> torn[k]]
    /\ UNCHANGED <<identity, files, now, steps, last, cache>>

\* fs.unlink of deleteMemory completes, or throws for a file that is gone
MemUnlink(i) ==
    /\ inflight[i].pc = "unlinking"
    /\ IF inflight[i].o.id \notin DOMAIN disk
       THEN /\ inflight' = [inflight EXCEPT ![i].pc = "done", ![i].result = <<FALSE>>]
            /\ UNCHANGED <<disk, torn>>
       ELSE /\ inflight' =
                 [k \in Slots |->
                    IF k = i
                    THEN [inflight[i] EXCEPT !.pc = "done", !.result = <<TRUE>>]
                    ELSE IF inflight[k].pc = "opened" /\ inflight[k].o.id = inflight[i].o.id
                         THEN [inflight[k] EXCEPT !.detached = TRUE]
                         ELSE inflight[k]]
            /\ disk' = unlinkMemoryFile(disk, torn, inflight[i].o.id).disk
            /\ torn' = unlinkMemoryFile(disk, torn, inflight[i].o.id).torn
    /\ UNCHANGED <<identity, files, now, steps, last, cache>>

FlightTick ==
    /\ now < MemMaxClock
    /\ now' = now + 1
    /\ UNCHANGED <<pending, identity, files, steps, last, disk, cache>>

FlightNext ==
    \/ FlightTick
    \/ \E i \in Slots : MemBegin(i)
    \/ \E i \in Slots : MemRead(i)
    \/ \E i \in Slots : MemOpen(i)
    \/ \E i \in Slots : MemWrite(i)
    \/ \E i \in Slots : MemUnlink(i)

\* operations of the memory store, interleaved at their reads and writes
FlightSpec == Init /\ [][FlightNext]_vars

\* this step ran the operation op
Ran(op) == steps' = steps + 1 /\ last'.op = op

---------------------------------------------------------------------------
(* C1: store(project, topic, content, tags, importance) followed by        *)
(* get(project, topic) returns a topic with the stored content and tags    *)
(* and the stored importance clamped into [1,10], for every topic name.    *)
C1_RoundTrip ==
    last.op = "store" =>
        LET r == getTopicMemory(files, last.project, last.topic)
        IN  /\ r.kind = "own"
            /\ r.memory.content = <<last.args.content>>
            /\ r.memory.tags = <<last.args.tags>>
            /\ r.memory.importance = <<ClampedInto1to10(last.args.importance)>>

---------------------------------------------------------------------------
TopicImportanceInRange ==
    \A f \in DOMAIN files : \A i \in 1..Len(files[f]) :
        /\ "importance" \in DOMAIN files[f][i].memory
        /\ files[f][i].memory.importance \in 1..10

MemoryImportanceInRange ==
    /\ \A i \in DOMAIN disk :
           "importance" \in DOMAIN disk[i] /\ disk[i].importance \in 1..10
    /\ \A k \in 1..Len(cache) :
           /\ cache[k].value.importance # Undefined
           /\ cache[k].value.importance[1] \in 1..10

(* C2: every persisted topic and every persisted or cached memory has an   *)
(* importance, and it is in 1..10.                                         *)
C2_ImportanceInRange == TopicImportanceInRange /\ MemoryImportanceInRange

---------------------------------------------------------------------------
(* C4: update of a topic name that is not a key of the project's document  *)
(* throws and leaves the storage root as it was (nothing written, no       *)
(* document created).                                                      *)
C4_UpdateMissing ==
    [][(Ran("update") /\ ~IsKey(files, last'.project, last'.topic))
          => (last'.threw /\ files' = files)]_vars

---------------------------------------------------------------------------
(* C7: for every project and topic name, get returns null exactly when     *)
(* the name is not a key of the persisted document, and the stored record  *)
(* otherwise.                                                              *)
C7_GetNullIffAbsent ==
    \A p \in Projects, t \in TopicNames :
        LET r == getTopicMemory(files, p, t)
        IN  IF IsKey(files, p, t)
            THEN r.kind = "own" /\ stringifyRecord(r.memory) = RecordOf(files, p, t)
            ELSE r = Null

---------------------------------------------------------------------------
(* C8: delete of a name that is not a key of the document leaves the       *)
(* storage root as it was; delete of a key removes that key and leaves     *)
(* the other topics and the other documents as they were.                  *)
C8_DeleteFrame ==
    [][Ran("delete") =>
          IF IsKey(files, last'.project, last'.topic)
          THEN /\ DOMAIN files' = DOMAIN files
               /\ DocumentOf(files', last'.project)
                      = OthersOf(files, last'.project, last'.topic)
               /\ \A q \in Projects \ {last'.project} :
                      DocumentOf(files', q) = DocumentOf(files, q)
          ELSE files' = files]_vars


---------------------------------------------------------------------------

Queries == {<<"c", "p", "f">>, <<"B">>, <<"o">>, <<>>}
Limits  == {0, 1, 2, 10}

ContainsNoCase(s, q) == includes(toLowerCase(s), toLowerCase(q))

ExpectedScore(entry, q) ==
    (IF ContainsNoCase(entry.memory.content, q) THEN 3 ELSE 0)
    + (IF \E i \in 1..Len(entry.memory.tags) : ContainsNoCase(entry.memory.tags[i], q)
       THEN 2 ELSE 0)
    + (IF ContainsNoCase(entry.name, q) THEN 1 ELSE 0)

ExpectedSearch(doc, q, limit) ==
    LET hits == {i \in 1..Len(doc) : ExpectedScore(doc[i], q) > 0}
        Before(i, j) ==
            \/ ExpectedScore(doc[i], q) > ExpectedScore(doc[j], q)
            \/ /\ ExpectedScore(doc[i], q) = ExpectedScore(doc[j], q)
               /\ doc[i].memory.importance > doc[j].memory.importance
            \/ /\ ExpectedScore(doc[i], q) = ExpectedScore(doc[j], q)
               /\ doc[i].memory.importance = doc[j].memory.importance
               /\ i < j
        Rank(i) == 1 + Cardinality({j \in hits : Before(j, i)})
        n == IF limit < Cardinality(hits) THEN limit ELSE Cardinality(hits)
    IN  [k \in 1..n |->
            LET i == CHOOSE h \in hits : Rank(h) = k
            IN  [topic  |-> doc[i].name,
                 memory |-> parseRecord(doc[i].memory),
                 score  |-> ExpectedScore(doc[i], q)]]

(* C3: search returns exactly the topics with a positive score (3 for the  *)
(* content, 2 for a tag, 1 for the name containing the query, without      *)
(* regard to case), by descending score, then descending importance, then  *)
(* document order, cut to the first limit items.                           *)
C3_SearchResult ==
    \A p \in Projects, q \in Queries, limit \in Limits :
        \A o \in searchTopicMemories(files, p, q, limit) :
            /\ ~o.threw
            /\ o.results = ExpectedSearch(DocumentOf(files, p), q, limit)

---------------------------------------------------------------------------

\* the field f is the same in the records old and new
Same(old, new, f) ==
    /\ f \in DOMAIN old <=> f \in DOMAIN new
    /\ f \in DOMAIN old => old[f] = new[f]

KeysOf(doc) == [i \in 1..Len(doc) |-> doc[i].name]

---------------------------------------------------------------------------

TimestampsOrdered(fs) ==
    \A f \in DOMAIN fs : \A i \in 1..Len(fs[f]) :
        /\ "timestamp" \in DOMAIN fs[f][i].memory
        /\ fs[f][i].memory.timestamp <= fs[f][i].memory.lastModified

(* C6: every topic of every document has timestamp <= lastModified, and    *)
(* the timestamp of a topic does not change while the topic stays in the   *)
(* document.                                                               *)
C6_Timestamps ==
    [][/\ TimestampsOrdered(files')
       /\ \A p \in Projects : \A i \in 1..Len(DocumentOf(files, p)) :
              LET t == DocumentOf(files, p)[i].name
              IN  IsKey(files', p, t) =>
                      Same(RecordOf(files, p, t), RecordOf(files', p, t), "timestamp")]_vars

---------------------------------------------------------------------------

FixedNames == {FIXED_TOPICS[i] : i \in 1..Len(FIXED_TOPICS)}

---------------------------------------------------------------------------
(* C10: after reset(project), get returns null for every topic name, the   *)
(* list of topics is empty, info is null, listProjects does not hold the   *)
(* project, and the documents of the other projects are as they were.      *)
C10_Reset ==
    [][Ran("reset") =>
          LET p == last'.project
          IN  /\ ~last'.threw
              /\ \A t \in TopicNames \cup FixedNames : getTopicMemory(files', p, t) = Null
              /\ listTopics(files', p) = <<>>
              /\ getProjectInfo(files', now', p) = Null
              /\ p \notin listProjects(files')
              /\ \A q \in Projects \ {p} :
                     /\ getProjectPath(q) \in DOMAIN files' <=> getProjectPath(q) \in DOMAIN files
                     /\ DocumentOf(files', q) = DocumentOf(files, q)]_vars

---------------------------------------------------------------------------

\* the sum of the importance of the records of doc
RECURSIVE TotalOf(_)
TotalOf(doc) ==
    IF Len(doc) = 0 THEN 0
    ELSE doc[Len(doc)].memory.importance + TotalOf(SubSeq(doc, 1, Len(doc) - 1))

\* every record of doc holds the three numbers that info aggregates
Aggregable(doc) ==
    \A i \in 1..Len(doc) :
        {"importance", "timestamp", "lastModified"} \subseteq DOMAIN doc[i].memory

\* info(project) is what the claim says it is
InfoAsClaimed(fs, clock, p) ==
    LET info == getProjectInfo(fs, clock, p)
        doc  == DocumentOf(fs, p)
    IN  IF getProjectPath(p) \notin DOMAIN fs THEN info = Null
        ELSE /\ info.kind = "info"
             /\ info.name = p
             /\ info.topicCount = Len(doc)
             /\ info.memoryCount = Len(doc)
             /\ Aggregable(doc)
             /\ info.totalImportance = <<TotalOf(doc)>>
             /\ IF Len(doc) = 0
                THEN info.createdAt = <<clock>> /\ info.lastModified = <<0>>
                ELSE /\ info.createdAt # NaN
                     /\ \E i \in 1..Len(doc) : doc[i].memory.timestamp = info.createdAt[1]
                     /\ \A i \in 1..Len(doc) : doc[i].memory.timestamp >= info.createdAt[1]
                     /\ info.lastModified # NaN
                     /\ \E i \in 1..Len(doc) :
                            doc[i].memory.lastModified = info.lastModified[1]
                     /\ \A i \in 1..Len(doc) :
                            doc[i].memory.lastModified <= info.lastModified[1]

\* the topic count info reports, 0 for a project without a document
CountOf(fs, clock, p) ==
    IF getProjectInfo(fs, clock, p) = Null THEN 0
    ELSE getProjectInfo(fs, clock, p).topicCount

(* C11: info is null for a project without a document; otherwise           *)
(* topicCount = memoryCount = the number of topics, totalImportance is the *)
(* sum of their importance, createdAt the least timestamp (the current     *)
(* time without topics), lastModified the greatest lastModified (0 without *)
(* topics); and a store of a topic name that is not yet in the document    *)
(* raises topicCount by one, so n distinct names stored into a fresh       *)
(* project give topicCount n.                                              *)
C11_InfoAggregates ==
    [][/\ \A p \in Projects : InfoAsClaimed(files', now', p)
       /\ (Ran("store") /\ ~IsKey(files, last'.project, last'.topic))
              => CountOf(files', now', last'.project)
                     = CountOf(files, now, last'.project) + 1]_vars

---------------------------------------------------------------------------

CacheKeys(c) == {c[i].key : i \in 1..Len(c)}

\* the times at which a later read can happen
LaterTimes(clock) == clock..(MemMaxClock + CacheTtl + 1)

\* what a store without any cache gives for id: the parsed file, or nothing
FromDisk(dk, id) == IF id \in DOMAIN dk THEN <<parseMemory(dk[id])>> ELSE Undefined

\* every read, now or later, gives what the files hold
ReadsFromDisk(dk, c, clock) ==
    \A id \in DOMAIN dk \cup CacheKeys(c) \cup {NoSuchId} : \A t \in LaterTimes(clock) :
        getMemory(dk, c, t, id).memory = FromDisk(dk, id)

(* C12: in a run without I/O failures every getMemory, whether the cache   *)
(* entry is live, evicted or expired, returns what the store without a     *)
(* cache returns; after storeMemory the memory read back has the stored    *)
(* content and tags and the clamped importance; and every operation leaves *)
(* the files that the same operation leaves on the store without a cache.  *)
C12_CacheTransparent ==
    [][/\ ReadsFromDisk(disk', cache', now')
       /\ Ran("storeMemory") =>
              \A t \in LaterTimes(now') :
                  LET m == getMemory(disk', cache', t, last'.id).memory
                  IN  /\ m # Undefined
                      /\ m[1].content = <<last'.args.content>>
                      /\ m[1].tags = <<last'.args.tags>>
                      /\ m[1].importance = <<ClampedInto1to10(last'.args.importance)>>
       /\ Ran("getMemory") =>
              /\ last'.memory = FromDisk(disk, last'.id)
              /\ disk' = disk
       /\ Ran("updateMemory") =>
              /\ last'.result = updateMemory(disk, <<>>, now, last'.id, last'.args).result
              /\ disk' = updateMemory(disk, <<>>, now, last'.id, last'.args).disk
       /\ Ran("deleteMemory") =>
              disk' = deleteMemory(disk, <<>>, last'.id, FALSE).disk]_vars

\* C12, witness: a read of a memory whose cache entry has expired, found on
\* disk, while another memory has been evicted from the full cache
C12_Witness ==
    /\ last.op = "getMemory"
    /\ last.lookup = "stale"
    /\ last.result
    /\ last.memory[1].content = <<Cpf>>
    /\ \E id \in DOMAIN disk : ~cacheHas(cache, id)

---------------------------------------------------------------------------
---------------------------------------------------------------------------

\* the ids of a list of memories
IdsOf(ms) == {ms[i].id[1] : i \in 1..Len(ms)}

\* no search and no listing of the files dk returns id
NotListed(dk, id) ==
    \A order \in readdir(dk) :
        /\ id \notin IdsOf(listMemories(dk, order, Undefined, 10))
        /\ \A q \in MemQueries \cup {<<>>}, tags \in TagArgs :
               id \notin IdsOf(searchMemories(dk, order, q, tags, 10))

(* C14: after deleteMemory(id) returns true the id is neither in the cache *)
(* nor on disk, getMemory(id) returns null, updateMemory(id, ...) returns  *)
(* false and no listing or search returns it, while the other files stay   *)
(* as they were; deleteMemory of an id that is neither cached nor on disk  *)
(* returns true and changes nothing; and deleteMemory returns false        *)
(* exactly when the removal of the file fails.                             *)
C14_DeleteMemory ==
    [][Ran("deleteMemory") =>
          LET id == last'.id
          IN  /\ last'.result =>
                     /\ id \notin DOMAIN disk'
                     /\ ~cacheHas(cache', id)
                     /\ \A t \in LaterTimes(now') :
                            getMemory(disk', cache', t, id).memory = Undefined
                     /\ \A a \in Patches :
                            ~updateMemory(disk', cache', now', id, a).result
                     /\ NotListed(disk', id)
              /\ \A j \in DOMAIN disk \ {id} : j \in DOMAIN disk' /\ disk'[j] = disk[j]
              /\ (id \notin DOMAIN disk /\ ~cacheHas(cache, id)) =>
                     (last'.result /\ disk' = disk /\ cache' = cache)
              /\ ~last'.result <=> last'.unlinkThrew]_vars

\* C14, witness: the delete of a stored memory at the third operation,
\* with another memory left on disk
C14_Witness ==
    /\ last.op = "deleteMemory"
    /\ last.result
    /\ last.id # NoSuchId
    /\ steps = 3
    /\ DOMAIN disk # {}
    /\ last.id \notin DOMAIN disk

---------------------------------------------------------------------------
(* C15: cleanupOldMemories(maxAge) removes exactly the files whose memory  *)
(* has timestamp < now - maxAge and importance < 5, returns their number,  *)
(* and leaves every other memory on disk as it was and retrievable; a      *)
(* memory of importance >= 5 is never removed.                             *)
C15_Cleanup ==
    [][Ran("cleanupOldMemories") =>
          LET doomed == {id \in DOMAIN disk :
                            /\ disk[id].timestamp < now - last'.maxAge
                            /\ disk[id].importance < 5}
          IN  /\ DOMAIN disk' = DOMAIN disk \ doomed
              /\ last'.result = Cardinality(doomed)
              /\ \A id \in DOMAIN disk' :
                     /\ disk'[id] = disk[id]
                     /\ getMemory(disk', cache', now', id).memory
                            = <<parseMemory(disk[id])>>
              /\ \A id \in doomed :
                     getMemory(disk', cache', now', id).memory = Undefined
              /\ \A id \in DOMAIN disk : disk[id].importance >= 5 => id \in DOMAIN disk']_vars

\* C15, witness: a cleanup with maxAge 1 that removed one memory and kept a
\* memory of the same age whose importance is at least 5
C15_Witness ==
    /\ last.op = "cleanupOldMemories"
    /\ last.maxAge = 1
    /\ last.result = 1
    /\ \E id \in DOMAIN disk :
           /\ disk[id].timestamp < now - 1
           /\ disk[id].importance >= 5

---------------------------------------------------------------------------

\* the memory j passes the filter the claim describes
MatchesAsClaimed(j, q, tags) ==
    /\ \/ ContainsNoCase(j.content, q)
       \/ \E i \in 1..Len(j.tags) : ContainsNoCase(j.tags[i], q)
    /\ \/ tags = Undefined
       \/ tags[1] = <<>>
       \/ \E i \in 1..Len(tags[1]) : \E k \in 1..Len(j.tags) : j.tags[k] = tags[1][i]

\* a may stand before b: higher importance, or the same and not older
MayPrecede(a, b) ==
    \/ a.importance[1] > b.importance[1]
    \/ a.importance[1] = b.importance[1] /\ a.timestamp[1] >= b.timestamp[1]

(* C16: searchMemories(query, tags, limit) returns memories of the disk    *)
(* only, without repetition, exactly those that contain the query in the   *)
(* content or a tag (case-insensitively) and, for a non-empty tags         *)
(* argument, carry one of the supplied tags; ordered by importance         *)
(* descending, then timestamp descending; cut to the first limit items;    *)
(* and it changes neither disk nor cache.                                  *)
C16_SearchMemories ==
    [][Ran("searchMemories") =>
          LET r == last'.result
              M == {id \in DOMAIN disk :
                       MatchesAsClaimed(disk[id], last'.query, last'.tags)}
          IN  /\ disk' = disk
              /\ cache' = cache
              /\ Len(r) = IF last'.limit < Cardinality(M)
                          THEN last'.limit ELSE Cardinality(M)
              /\ \A i \in 1..Len(r) :
                     /\ r[i].id[1] \in M
                     /\ r[i] = parseMemory(disk[r[i].id[1]])
              /\ \A i, j \in 1..Len(r) :
                     i < j => (r[i].id # r[j].id /\ MayPrecede(r[i], r[j]))
              /\ \A id \in M \ IdsOf(r) : \A i \in 1..Len(r) :
                     MayPrecede(r[i], parseMemory(disk[id]))]_vars

\* C16, witness: a search with a tags argument that returned two memories,
\* the more important one first
C16_Witness ==
    /\ last.op = "searchMemories"
    /\ last.tags = << <<TagShop>> >>
    /\ last.query = <<"c", "p", "f">>
    /\ Len(last.result) = 2
    /\ last.result[1].importance = <<10>>
    /\ last.result[2].importance = <<1>>


---------------------------------------------------------------------------
(* C17: the explicit override and its place in the cascade *)

\* the value of MCP_PROJECT_NAME that detection reads in s, after the
\* substitution of variables
envProjectOf(s) == resolvedOf(s.MCP_PROJECT_NAME, s)

\* envProject passes validation and result carries its sanitized form
Overrides(envProject, result) ==
    usable(envProject) => result.name = sanitizeProjectName(envProject.name)

\* C17, as claimed: whenever MCP_PROJECT_NAME, after the substitution of
\* variables, holds a name that passes validation, detection returns the
\* sanitized form of that name, whatever any other strategy yields
C17_OverrideFirst ==
    last.op = "detect" => Overrides(envProjectOf(last.snap), last.result)

\* C17, amended: whenever MCP_PROJECT_NAME, after the substitution of
\* variables, holds a name that passes validation and the active-workspace
\* strategy evaluated ahead of it yields no valid candidate, detection returns
\* the sanitized form of that name by the method User Configuration, whatever
\* any later strategy yields
C17_OverrideSecond ==
    (/\ last.op = "detect"
     /\ ~accepted(detectVSCodeActiveWorkspaceAdvanced(last.snap, last.processes)))
        => /\ Overrides(envProjectOf(last.snap), last.result)
           /\ usable(envProjectOf(last.snap)) =>
                  /\ last.result.method = "User Configuration"
                  /\ last.result.source.label =
                         "MCP_PROJECT_NAME environment variable (with variable resolution)"

\* detection ran with a valid override while the editor's storage named
\* another workspace to the strategy behind it, and the override won
C17_Witness ==
    /\ last.op = "detect"
    /\ last.snap.MCP_PROJECT_NAME = <<NotesName>>
    /\ accepted(detectActiveVSCodeWorkspace(last.snap, last.processes))
    /\ last.result.name = <<"n", "o", "t", "e", "s">>
    /\ last.result.method = "User Configuration"


---------------------------------------------------------------------------
(* C18: detection is total and every strategy is fault-isolated *)

\* the identity the cascade arrives at when an error thrown inside a strategy,
\* the directory-name step included, counts as no candidate from it
IsolatedCascade(s, p) == firstAccepted(beforeCwd(s, p) \o afterCwd(s, p))

\* result is the first valid candidate, or without one the fallback on dirName
AsIsolated(result, first, dirName) ==
    /\ first # <<>> => result = first[1]
    /\ first = <<>> =>
           result.name = IF Len(dirName) > 0 /\ isValidProjectName(dirName)
                         THEN sanitizeProjectName(dirName) ELSE UnknownProject

\* C18: detection returns an identity for every combination of outcomes of
\* the strategies; an error thrown inside a strategy counts as no candidate
\* from that strategy, so that the first valid candidate of the others wins;
\* when no strategy yields a valid candidate the name is the sanitized
\* basename of the current directory if that is valid, else unknown-project
C18_FaultIsolated ==
    last.op = "detect" =>
        /\ Len(last.result.name) > 0
        /\ AsIsolated(last.result, IsolatedCascade(last.snap, last.processes),
                      IF last.snap.cwd.kind = "dir"
                      THEN basename(last.snap.cwd.path) ELSE <<>>)


---------------------------------------------------------------------------
(* C19: detection is a function of its environment; the identity of a       *)
(* manager is fixed by its constructor                                       *)

\* this step is a run of detection that follows a run of detection
DetectedTwice == last.op = "detect" /\ Ran("detect")

\* the identity is computed by the constructor and no other step changes it,
\* the memory directory derived from it, or what the manager reports of them
ComputedOnce ==
    /\ (Ran("constructor") /\ ~last'.threw) =>
           /\ projectContext'.name =
                  detectProjectNameWithSource(snap, processes).name
           /\ memoryDir' = getMemoryDirectory(projectContext')
    /\ ~(Ran("constructor") /\ ~last'.threw) =>
           /\ projectContext' = projectContext
           /\ memoryDir' = memoryDir
           /\ getProjectDetectionInfo(projectContext', memoryDir', snap') =
                  getProjectDetectionInfo(projectContext, memoryDir, snap)

---------------------------------------------------------------------------
(* C20: validation rejects the whole denylist *)

\* name is, compared without regard to case, an entry of the denylist
OnDenylist(name) ==
    \E i \in 1..Len(invalidNames) :
        toLowerCase(invalidNames[i]) = toLowerCase(name)

\* name contains a forbidden pattern
HasForbiddenPattern(name) ==
    \E i \in 1..Len(forbiddenPatterns) :
        includes(toLowerCase(name), forbiddenPatterns[i])

\* C20: isValidProjectName returns false for every name of fewer than two
\* characters, for every name that is, compared without regard to case, an
\* entry of the denylist, and for every name that contains a forbidden
\* pattern
C20_RejectsDenylist ==
    (/\ last.op = "isValidProjectName"
     /\ \/ Len(last.name) < 2
        \/ OnDenylist(last.name)
        \/ HasForbiddenPattern(last.name))
        => last.result = FALSE

---------------------------------------------------------------------------
(* C21: identity names are sanitized *)

\* name is non-empty, of at most 50 characters, all of them in [a-z0-9-_]
SanitizedForm(name) ==
    /\ Len(name) > 0
    /\ Len(name) <= 50
    /\ \A i \in 1..Len(name) : name[i] \in Letters \cup Digits \cup {"-", "_"}

\* C21: for every input string sanitizeProjectName returns a non-empty string
\* of at most 50 characters in [a-z0-9-_], 'project' when nothing else
\* remains, and the name of every identity that detection returns, from a
\* strategy, from the fallback or from the error fallback, has this form
C21_SanitizedNames ==
    /\ last.op = "sanitizeProjectName"
          => /\ SanitizedForm(last.result)
             /\ (\A i \in 1..Len(last.name) : last.name[i] \notin Letters \cup DOMAIN LowerOf \cup Digits \cup {"_"})
                    => last.result = ProjectDefault
    /\ last.op = "detect" => SanitizedForm(last.result.name)

\* detection has returned the name of a strategy, changed by the sanitizer
C21_Witness ==
    /\ last.op = "detect"
    /\ last.result.method = "User Configuration"
    /\ last.snap.MCP_PROJECT_NAME = <<NotesName>>
    /\ last.result.name = <<"n", "o", "t", "e", "s">>

---------------------------------------------------------------------------
(* C22: both stores keep their files under the storage root *)

\* the root as claimed: the variable when it is set, else the fixed directory
\* under the home directory
ClaimedRoot(s) ==
    IF s.MEMORY_BANK_ROOT # Undefined THEN s.MEMORY_BANK_ROOT[1]
    ELSE HomeDir \o <<"/">> \o DefaultRootName

\* dir is root or lies below it
Within(root, dir) ==
    \/ dir = root
    \/ /\ Len(dir) > Len(root)
       /\ SubSeq(dir, 1, Len(root) + 1) = root \o <<"/">>

\* C22: every operation of the topic store reads or writes the file
\* <root>/<project>.json, every operation of the memory store the file
\* <root>/<project>/<id>.json, where root is MEMORY_BANK_ROOT when it is set
\* and the fixed directory under the home directory when it is not, and no
\* operation touches a file outside root
C22_StorageRoot ==
    last.op # "none" =>
        /\ Within(ClaimedRoot(snap), last.file.dir)
        /\ last.store = "topic" =>
              last.file = [dir |-> ClaimedRoot(snap), name |-> last.project \o JsonExt]
        /\ last.store = "memory" =>
              last.file = [dir  |-> ClaimedRoot(snap) \o <<"/">> \o projectContext.name,
                           name |-> last.id \o JsonExt]

---------------------------------------------------------------------------
(* C23: the last write wins on a project document *)

\* both slots hold a mutation that has completed, and the two overlapped
BothDone ==
    /\ inflight[1].pc = "done" /\ inflight[2].pc = "done"
    /\ ~inflight[1].solo /\ ~inflight[2].solo
    /\ inflight[1].wrote \/ inflight[2].wrote

\* the slot of the write that completed last
LastWriter ==
    IF inflight[1].finished > inflight[2].finished THEN 1 ELSE 2

\* C23: when two mutations of the same project that were in flight together
\* have both completed, the file holds exactly the document that the write
\* completed last has written: a whole document, each record of which was
\* written whole by one operation, with the change of the other mutation in
\* it only when the last writer had loaded it
C23_LastWriteWins ==
    BothDone =>
        /\ getProjectPath(Shop) \notin DOMAIN torn
        /\ files[getProjectPath(Shop)] = inflight[LastWriter].doc

---------------------------------------------------------------------------
(* C24: a project document is replaced atomically *)

\* C24: a load that overlaps a write of the same document observes the whole
\* previous document or the whole new one, never an empty or partly written
\* file
C24_AtomicReplacement ==
    \A i \in Slots :
        inflight[i].pc # "idle" => inflight[i].observed # "torn"

---------------------------------------------------------------------------
(* C27: store preserves the other topics *)

\* the record of topic t in the document doc, <<>> when doc has no such key
recordIn(doc, t) ==
    IF \E k \in 1..Len(doc) : doc[k].name = t
    THEN <<doc[CHOOSE k \in 1..Len(doc) : doc[k].name = t].memory>>
    ELSE <<>>

\* C27: a store that completes with no other operation in flight during it,
\* on a file that held a whole document when it was called, leaves every
\* other topic of that document in the file, unchanged, also when the read
\* of the document fails
C27_StorePreservesOthers ==
    \A i \in Slots :
        (/\ inflight[i].pc = "done"
         /\ inflight[i].o.op = "store"
         /\ inflight[i].wrote
         /\ inflight[i].solo
         /\ inflight[i].before.whole)
            => /\ inflight[i].after.whole
               /\ \A k \in 1..Len(inflight[i].before.doc) :
                     inflight[i].before.doc[k].name # inflight[i].o.topic
                        => recordIn(inflight[i].after.doc, inflight[i].before.doc[k].name)
                               = <<inflight[i].before.doc[k].memory>>

---------------------------------------------------------------------------
(* C25: the depth of the walk over marker files *)

\* the marker file of dir can be read and holds a valid project name
HoldsValidName(s, dir) ==
    /\ dir \in DOMAIN s.markers
    /\ s.markers[dir].kind = "found"
    /\ Len(trim(s.markers[dir].name)) > 0
    /\ isValidProjectName(trim(s.markers[dir].name))

\* the name of the nearest marker file with a valid name in dir or in one of
\* the parents directories above it, up to the root
RECURSIVE NearestMarker(_, _, _)
NearestMarker(s, dir, parents) ==
    IF HoldsValidName(s, dir) THEN <<trim(s.markers[dir].name)>>
    ELSE IF parents = 0 \/ dirname(dir) = dir THEN Undefined
    ELSE NearestMarker(s, dirname(dir), parents - 1)

\* C25: with no other user configuration, detectUserSpecifiedProject returns
\* the name of the nearest marker file with a valid project name among those
\* of the current directory and of its first 5 parent directories, the walk
\* stopping at the root, and nothing when there is none: a marker file above
\* the 5th parent is ignored
C25_MarkerDepth ==
    last.op = "detectUserSpecifiedProject"
        => last.result.name = NearestMarker(last.snap, last.snap.cwd.path, 5)

---------------------------------------------------------------------------
(* C26: the store tool hands its arguments on unchanged *)

\* C26: after a store-topic-memory request the persisted record of the topic
\* holds the content of the request, its tags when it gives any, and, for
\* every integer importance of the request, that importance clamped into
\* [1,10]; a request with importance 0 stores importance 1
C26_StoreToolMapsOneToOne ==
    last.op = "store-topic-memory" =>
        /\ IsKey(files, last.args.projectName, last.args.topic)
        /\ RecordOf(files, last.args.projectName, last.args.topic).content
               = last.args.content
        /\ last.args.tags # Undefined =>
               RecordOf(files, last.args.projectName, last.args.topic).tags
                   = last.args.tags[1]
        /\ last.args.importance # Undefined =>
               RecordOf(files, last.args.projectName, last.args.topic).importance
                   = ClampedInto1to10(last.args.importance[1])


---------------------------------------------------------------------------
\* the slot holds a completed operation op
ended(x, op) == x.pc = "done" /\ x.o.op = op

\* the entries of a cache, by id
entriesOf(c) == {<<c[i].key, c[i].value>> : i \in 1..Len(c)}

(* C28: when deleteMemory(id) of a memory whose file is written has        *)
(* returned true and a getMemory(id) or updateMemory(id) that was started  *)
(* in the same run has completed, the cache has no entry for id, there is  *)
(* no file for id, and getMemory(id) returns null.                         *)
C28_DeletedStaysDeleted ==
    \A d \in Slots : \A g \in Slots \ {d} :
        (/\ ended(inflight[d], "deleteMemory")
         /\ inflight[d].result = <<TRUE>>
         /\ readable(inflight[d].before.disk, inflight[d].before.torn, inflight[d].o.id)
         /\ inflight[g].pc = "done"
         /\ inflight[g].o.op \in {"getMemory", "updateMemory"}
         /\ inflight[g].o.id = inflight[d].o.id)
            => /\ ~cacheHas(cache, inflight[d].o.id)
               /\ inflight[d].o.id \notin DOMAIN disk
               /\ getMemory(disk, cache, now, inflight[d].o.id).memory = Undefined

(* C29: when the write of persistMemory fails in a storeMemory or an       *)
(* updateMemory that ran with no other operation in flight, the operation  *)
(* throws and the cache and the files are as they were before the call.    *)
C29_FailedPersistChangesNothing ==
    \A i \in Slots :
        (/\ inflight[i].pc = "done"
         /\ inflight[i].o.op \in {"storeMemory", "updateMemory"}
         /\ inflight[i].threw
         /\ inflight[i].solo
         /\ \A j \in Slots \ {i} : ~inFlight(inflight[j]) /\ inflight[j].pc = "idle")
            => /\ entriesOf(cache) = entriesOf(inflight[i].before.cache)
               /\ disk = inflight[i].before.disk
               /\ torn = inflight[i].before.torn

---------------------------------------------------------------------------
(* C30: sanitizeProjectName of what sanitizeProjectName returned is the    *)
(* same name, and what it returns neither begins nor ends with '-' and has *)
(* no two '-' in a row, for names of lengths below, at and above 50.       *)
C30_SanitizeIdempotent ==
    last.op = "sanitizeProjectName"
       => /\ sanitizeProjectName(last.result) = last.result
          /\ Head(last.result) # "-"
          /\ last.result[Len(last.result)] # "-"
          /\ \A i \in 1..(Len(last.result) - 1) :
                 ~(last.result[i] = "-" /\ last.result[i + 1] = "-")
====
